---- MODULE Spec2Model ----
(***************************************************************************)
(* CMYK halftone emulator: the fragment shader (two variants of            *)
(* halftone-fragment.glsl) as fixed-point operators evaluated step by step *)
(* for one pixel, and the host render loop of WebGLHalftoneProcessor.      *)
(*                                                                         *)
(* Shader floats are fixed-point integers: the float 1.0 is One.  Vectors  *)
(* are tuples.  Channels are "C", "M", "Y", "K".                           *)
(***************************************************************************)
EXTENDS Integers, Sequences, FiniteSets, TLC

\* The float 1.0 of the shader ("precision highp float").
One == 10000

\* A float literal num/den, e.g. F(1, 1000) for 0.001.
F(num, den) == (num * One) \div den

Channels == <<"C", "M", "Y", "K">>
ChannelSet == {"C", "M", "Y", "K"}

\* Value of an undefined float result that is not a number (0.0 / 0.0).
\* Every comparison with it is false in GLSL; it lies outside every range.
NaN == 0 - (One * One)

------------------------------------------------------------------------
\* GLSL built-ins

Min(a, b) == IF a < b THEN a ELSE b
Max(a, b) == IF a > b THEN a ELSE b
Abs(a) == IF a < 0 THEN 0 - a ELSE a

\* A local variable of the shader: Body(v), with v computed once.
Local(v, Body(_)) == CHOOSE r \in {Body(x) : x \in {v}} : TRUE

\* a * b of two floats: (a * b) \div One, computed without the wide product.
FMul(a, b) == a * (b \div One) + (a * (b % One)) \div One
FDiv(a, b) == (a * One) \div b

Clamp(x, lo, hi) == Min(Max(x, lo), hi)
Clamp3(v, lo, hi) == <<Clamp(v[1], lo, hi), Clamp(v[2], lo, hi), Clamp(v[3], lo, hi)>>

Floor(x) == (x \div One) * One
Fract(x) == x - Floor(x)

\* mix(x, y, a) = x * (1 - a) + y * a
Mix(x, y, a) == FMul(x, One - a) + FMul(y, a)
Mix3(x, y, a) == <<Mix(x[1], y[1], a), Mix(x[2], y[2], a), Mix(x[3], y[3], a)>>

RECURSIVE SqrtSearch(_, _, _)
SqrtSearch(n, lo, hi) ==
  IF lo >= hi THEN lo
  ELSE LET mid == (lo + hi + 1) \div 2
       IN  IF mid * mid <= n THEN SqrtSearch(n, mid, hi)
           ELSE SqrtSearch(n, lo, mid - 1)

\* length(v) of a 2-vector: the fixed-point square root of x*x + y*y.
Length2(v) == SqrtSearch(v[1] * v[1] + v[2] * v[2], 0, 4 * One)

\* smoothstep(edge0, edge1, x):
\*   t = clamp((x - edge0) / (edge1 - edge0), 0.0, 1.0); t * t * (3.0 - 2.0 * t).
\* GLSL ES 1.00 8.3: "Results are undefined if edge0 >= edge1".  With
\* edge0 = edge1 the quotient is (x - edge0) / 0.0: -inf or +inf (clamped to 0 or 1)
\* for x # edge0, and 0.0 / 0.0 for x = edge0; undef is the value the build
\* produces for what is left undefined.
Smoothstep(edge0, edge1, x, undef) ==
  IF edge0 > edge1 THEN undef
  ELSE IF edge0 = edge1
  THEN (IF x < edge0 THEN 0 ELSE IF x > edge0 THEN One ELSE undef)
  ELSE Local(Clamp(FDiv(x - edge0, edge1 - edge0), 0, One), LAMBDA t :
         FMul(FMul(t, t), 3 * One - 2 * t))

\* step(edge, x)
Step(edge, x) == IF x < edge THEN 0 ELSE One

\* cos and sin of the screen angles (degrees) the model uses.
CosDeg(a) ==
  CASE Abs(a) = 0 -> One
    [] Abs(a) = 15 -> F(9659, 10000)
    [] Abs(a) = 45 -> F(7071, 10000)
    [] Abs(a) = 75 -> F(2588, 10000)
    [] Abs(a) = 90 -> 0

SinPos(a) ==
  CASE a = 0 -> 0
    [] a = 15 -> F(2588, 10000)
    [] a = 45 -> F(7071, 10000)
    [] a = 75 -> F(9659, 10000)
    [] a = 90 -> One

SinDeg(a) == IF a < 0 THEN 0 - SinPos(0 - a) ELSE SinPos(a)

\* rotationMatrix(angle) * v, with mat2(c, -s, s, c) column-major.
rotationMatrix(angle, v) ==
  LET c == CosDeg(angle)
      s == SinDeg(angle)
  IN  <<FMul(c, v[1]) + FMul(s, v[2]), FMul(c, v[2]) - FMul(s, v[1])>>

------------------------------------------------------------------------
\* The fragment shader.  U is the record of uniforms, fx the record of the
\* per-fragment inputs the pipeline supplies: the build (variant of the
\* shader, whether GL_OES_standard_derivatives is defined, the value an
\* undefined built-in result takes), the canvas size in pixels (which fixes
\* the screen-space derivatives) and the value of the fractal noise sum at
\* the fragment.

\* texture2D(u_texture, pos).rgb with CLAMP_TO_EDGE: the textures modelled
\* are a left half and a right half of solid colour.
texture2D(tex, pos) ==
  IF Clamp(pos[1], 0, One) < F(1, 2) THEN tex.left ELSE tex.right

\* exp(-e) for a fixed-point e >= 0: e^(-floor(e)) from a table, times the
\* Taylor polynomial of exp(-frac(e)).
ExpNegInt(n) ==
  CASE n = 0 -> One
    [] n = 1 -> F(3679, 10000)
    [] n = 2 -> F(1353, 10000)
    [] n = 3 -> F(498, 10000)
    [] n = 4 -> F(183, 10000)
    [] n = 5 -> F(67, 10000)
    [] n = 6 -> F(25, 10000)
    [] OTHER -> 0

ExpNeg(e) ==
  LET x == Fract(e)
      x2 == FMul(x, x)
      x3 == FMul(x2, x)
      x4 == FMul(x3, x)
      poly == One - x + (x2 \div 2) - (x3 \div 6) + (x4 \div 24)
  IN  FMul(ExpNegInt(e \div One), poly)

\* gaussian(x, sigma) = exp(-(x * x) / (2.0 * sigma * sigma)); xx is x * x,
\* an integer.  The exponent is kept to two decimals.
gaussian(xx, sigma) ==
  LET denom == 2 * FMul(sigma, sigma)
      e == ((xx * One * 100) \div denom) * (One \div 100)
  IN  IF e >= 7 * One THEN 0 ELSE ExpNeg(e)

\* weight of the kernel offset (x, y), or 0 where "weight > 0.001" fails and
\* the loop body adds nothing.
TapWeight(U, x, y) ==
  LET weight == gaussian(x * x + y * y, U.blur \div 3)
  IN  IF weight > F(1, 1000) THEN weight ELSE 0

\* Component i of texture2D(u_texture, samplePos + offset).rgb * weight for
\* the kernel offset (x, y); offset = vec2(x, y) * texelSize * (u_blur / 4.0).
TapColor(tex, U, samplePos, x, y, i) ==
  FMul(texture2D(tex, <<samplePos[1] + (x * (U.blur \div 4)) \div U.resolution[1],
                        samplePos[2] + (y * (U.blur \div 4)) \div U.resolution[2]>>)[i],
       TapWeight(U, x, y))

\* for (int x = -4; x <= 4; x++): the sum of g[x] over the range.
Kernel == (0 - 4)..4
KernelSum(g) ==
  g[0 - 4] + g[0 - 3] + g[0 - 2] + g[0 - 1] + g[0] + g[1] + g[2] + g[3] + g[4]

\* colorSum[i] / weightSum, both divided by 10 first to keep the quotient
\* within range.
BlurQuotient(colorSum, weightSum) == FDiv(colorSum \div 10, weightSum \div 10)

sampleWithBlur(tex, U, samplePos) ==
  IF U.blur > F(1, 10)
  THEN LET colorSum ==
             [i \in 1..3 |->
                KernelSum([x \in Kernel |->
                  KernelSum([y \in Kernel |-> TapColor(tex, U, samplePos, x, y, i)])])]
           weightSum ==
             KernelSum([x \in Kernel |-> KernelSum([y \in Kernel |-> TapWeight(U, x, y)])])
       IN  Local(weightSum, LAMBDA w :
             <<BlurQuotient(colorSum[1], w), BlurQuotient(colorSum[2], w),
               BlurQuotient(colorSum[3], w)>>)
  ELSE texture2D(tex, samplePos)

\* adjustColor: contrast about 0.5, then lightness, then clamp.  The
\* classic variant has no u_lightness term (its uniform is never read).
adjustColor(U, variant, color) ==
  LET con(x) == FMul(x - F(1, 2), U.contrast) + F(1, 2)
      lit(x) == IF variant = "rotgrid" THEN x + U.lightness ELSE x
  IN  Clamp3(<<lit(con(color[1])), lit(con(color[2])), lit(con(color[3]))>>, 0, One)

\* rgbToCmyk with the black taken as 1 - min(r, g, b).
rgbToCmykMinBlack(rgb) ==
  LET k == One - Min(Min(rgb[1], rgb[2]), rgb[3])
  IN  <<0, 0, 0, Clamp(k, 0, One)>>

\* rgbToCmyk without grey component replacement: c, m, y = 1 - r, g, b.
rgbToCmykNoReplacement(rgb) ==
  <<One - rgb[1], One - rgb[2], One - rgb[3], One - Max(Max(rgb[1], rgb[2]), rgb[3])>>

\* rgbToCmyk with grey component replacement; <<c, m, y, k>>.
rgbToCmyk(rgb) ==
  Local(One - Max(Max(rgb[1], rgb[2]), rgb[3]), LAMBDA k :
    LET oneMinusK == One - k
        cmy == IF k < One
               THEN <<FDiv(One - rgb[1] - k, oneMinusK),
                      FDiv(One - rgb[2] - k, oneMinusK),
                      FDiv(One - rgb[3] - k, oneMinusK)>>
               ELSE <<0, 0, 0>>
    IN  Local(cmy, LAMBDA v :
          <<Clamp(v[1], 0, One), Clamp(v[2], 0, One), Clamp(v[3], 0, One),
            Clamp(k, 0, One)>>))

\* hash(p) for an integer-valued p (a grid cell), g = <<gx, gy>> integers:
\* p = 50.0 * fract(p * 0.3183099 + vec2(0.71, 0.113));
\* return fract(p.x * p.y * (p.x + p.y)).  The product is taken at reduced
\* precision so that it stays within range.
hash(g) ==
  LET px == (50 * Fract(g[1] * F(3183, 10000) + F(71, 100))) \div 100
      py == (50 * Fract(g[2] * F(3183, 10000) + F(113, 1000))) \div 100
      prod == ((px * py) \div 1000) * (px + py)
  IN  (prod % 1000) * (One \div 1000)

\* aspect-corrected, rotated, frequency-scaled coordinate (before jitter).
ScreenCoord(U, st, angle) ==
  LET aspectCorrectedSt == <<(st[1] * U.resolution[1]) \div U.resolution[2], st[2]>>
  IN  Local(rotationMatrix(angle, aspectCorrectedSt), LAMBDA r :
        <<r[1] * U.frequency, r[2] * U.frequency>>)

\* rotatedSt after the optional per-cell random offset.
JitteredCoord(U, st, angle) ==
  Local(ScreenCoord(U, st, angle), LAMBDA rotatedSt :
    LET gridPos == <<rotatedSt[1] \div One, rotatedSt[2] \div One>>
        randX == hash(gridPos) - F(1, 2)
        randY == hash(<<gridPos[1] + 17, gridPos[2] + 31>>) - F(1, 2)
        k == FMul(U.randomness, F(8, 10))
    IN  IF U.randomness > 0
        THEN <<rotatedSt[1] + FMul(randX, k), rotatedSt[2] + FMul(randY, k)>>
        ELSE rotatedSt)

\* radius = baseRadius - length(uv): the signed distance inside the dot.
DotRadius(U, st, channelValue, angle, roughness, paperNoise) ==
  Local(JitteredCoord(U, st, angle), LAMBDA j :
    Local(<<2 * Fract(j[1]) - One, 2 * Fract(j[2]) - One>>, LAMBDA uv :
      LET intensity == Clamp(channelValue, 0, One)
          contrastCurve == FMul(intensity, intensity)
          baseRadius == FMul(contrastCurve, U.dotSize)
                        + (IF intensity > F(1, 10)
                           THEN FMul(FMul(roughness, paperNoise), intensity)
                           ELSE 0)
      IN  baseRadius - Length2(uv)))

\* The size of one pixel in texture coordinates.
PixelStep(fx) == <<One \div fx.canvas[1], One \div fx.canvas[2]>>

\* fwidth(g) = abs(dFdx(g)) + abs(dFdy(g)), by differences to the
\* neighbouring fragments.
FWidth(G(_), st, fx) ==
  LET d == PixelStep(fx)
  IN  Abs(G(<<st[1] + d[1], st[2]>>) - G(st)) + Abs(G(<<st[1], st[2] + d[2]>>) - G(st))

\* aasmoothstep(edge0, edge1, x) with w = fwidth(x).
aasmoothstep(fx, edge0, edge1, x, w) ==
  IF fx.derivatives
  THEN LET width == Max(w, F(1, 10000))
       IN  Smoothstep(edge0 - width, edge1 + width, x, fx.undef)
  ELSE Smoothstep(edge0, edge1, x, fx.undef)

\* aastep(threshold, value) with w = fwidth(value).
aastep(fx, threshold, value, w) ==
  IF fx.derivatives
  THEN LET width == Max(w, F(1, 10000))
       IN  Smoothstep(threshold - width, threshold + width, value, fx.undef)
  ELSE Step(threshold, value)

\* The dot edge of the rotated-grid variant:
\* smoothstep(-fuzz - aaWidth, aaWidth, radius).  pixelWidth is
\* length(fwidth(rotatedSt)) * 2.0 of the coordinate before the jitter; a
\* component above 1.0 is cut to 1.0, which leaves aaWidth at its upper
\* clamp 0.1 either way.
EdgeRotgrid(U, fx, st, angle, fuzz, radius) ==
  LET sx(p) == ScreenCoord(U, p, angle)[1]
      sy(p) == ScreenCoord(U, p, angle)[2]
      pixelWidth == IF fx.derivatives
                    THEN Length2(<<Min(FWidth(sx, st, fx), One),
                                   Min(FWidth(sy, st, fx), One)>>) * 2
                    ELSE F(2, 100)
  IN  Local(pixelWidth, LAMBDA pw :
        Local(Clamp(pw, F(1, 100), F(1, 10)), LAMBDA aaWidth :
          Smoothstep(0 - fuzz - aaWidth, aaWidth, radius, fx.undef)))

\* The dot edge of the classic variant:
\* 1.0 - (1.0 - aasmoothstep(-fuzz, 0.0, radius)) * (1.0 - aastep(0.0, radius)).
EdgeClassic(U, fx, st, channelValue, angle, roughness, fuzz, paperNoise, radius) ==
  LET rad(p) == DotRadius(U, p, channelValue, angle, roughness, paperNoise)
  IN  Local(IF fx.derivatives THEN FWidth(rad, st, fx) ELSE 0, LAMBDA w :
        Local(aasmoothstep(fx, 0 - fuzz, 0, radius, w), LAMBDA a :
          Local(aastep(fx, 0, radius, w), LAMBDA b :
            IF a = NaN \/ b = NaN THEN NaN
            ELSE One - FMul(One - a, One - b))))

\* halftoneChannel past its threshold check: the anti-aliased dot edge.
DotEdge(U, fx, st, channelValue, angle, roughness, fuzz, paperNoise) ==
  Local(DotRadius(U, st, channelValue, angle, roughness, paperNoise), LAMBDA radius :
    IF fx.variant = "rotgrid"
    THEN EdgeRotgrid(U, fx, st, angle, fuzz, radius)
    ELSE EdgeClassic(U, fx, st, channelValue, angle, roughness, fuzz,
                     paperNoise, radius))

\* halftoneChannel with the threshold check left out.
halftoneChannelNoCutoff(U, fx, st, channelValue, angle, roughness, fuzz, paperNoise) ==
  DotEdge(U, fx, st, channelValue, angle, roughness, fuzz, paperNoise)

halftoneChannel(U, fx, st, channelValue, angle, roughness, fuzz, paperNoise) ==
  IF channelValue < U.threshold THEN 0
  ELSE DotEdge(U, fx, st, channelValue, angle, roughness, fuzz, paperNoise)

\* pixelateToRotatedGrid: the centre of the fragment's cell of the rotated
\* grid, back in texture coordinates.
pixelateToRotatedGrid(U, uv, freq, angle) ==
  LET aspectCorrected == <<(uv[1] * U.resolution[1]) \div U.resolution[2], uv[2]>>
  IN  Local(rotationMatrix(angle, aspectCorrected), LAMBDA r :
        LET rotatedUV == <<r[1] * freq, r[2] * freq>>
            cellCenter == <<Floor(rotatedUV[1]) + F(1, 2), Floor(rotatedUV[2]) + F(1, 2)>>
        IN  Local(rotationMatrix(0 - angle, cellCenter), LAMBDA inv :
              LET unrotated == <<inv[1] \div freq, inv[2] \div freq>>
              IN  <<(unrotated[1] * U.resolution[2]) \div U.resolution[1], unrotated[2]>>))

\* Index of a channel in a cmyk vector.
ChannelIndex(ch) == CASE ch = "C" -> 1 [] ch = "M" -> 2 [] ch = "Y" -> 3 [] ch = "K" -> 4

\* texcolor: the contrast-adjusted (blurred) source colour at the fragment.
TexColor(tex, U, fx) ==
  Local(sampleWithBlur(tex, U, fx.st), LAMBDA color : adjustColor(U, fx.variant, color))

\* paperNoiseValue = 0.1 * f, f the four-octave simplex sum at the fragment.
PaperNoiseValue(fx) == FMul(F(1, 10), fx.noise)

\* paper = u_paperColor - u_paperNoise * paperNoiseValue
Paper(U, fx) ==
  LET n == FMul(U.paperNoise, PaperNoiseValue(fx))
  IN  <<U.paperColor[1] - n, U.paperColor[2] - n, U.paperColor[3] - n>>

\* inkamount = 0.9 - u_inkNoise * paperNoiseValue
InkAmount(U, fx) == F(9, 10) - FMul(U.inkNoise, PaperNoiseValue(fx))

\* The cmyk vector whose component drives channel ch.  The rotated-grid
\* variant samples the source at the centre of the channel's grid cell;
\* the classic variant converts texcolor once.
ChannelCmyk(tex, U, fx, ch) ==
  IF fx.variant = "rotgrid"
  THEN Local(sampleWithBlur(tex, U, pixelateToRotatedGrid(U, fx.st, U.frequency, U.angle[ch])),
             LAMBDA sample :
               Local(adjustColor(U, fx.variant, sample), LAMBDA color : rgbToCmyk(color)))
  ELSE Local(TexColor(tex, U, fx), LAMBDA texc : rgbToCmyk(texc))

\* The tone below which main() does not call halftoneChannel at all.
ToneFloor(fx, ch) ==
  IF fx.variant = "classic" /\ ch = "K" THEN F(1, 10) ELSE F(1, 1000)

\* c, m, y, k of main(): the dot coverage of channel ch for tone v.
ChannelCoverage(U, fx, ch, v) ==
  IF U.show[ch] /\ v > ToneFloor(fx, ch)
  THEN halftoneChannel(U, fx, fx.st, v, U.angle[ch], U.roughness, U.fuzz,
                       PaperNoiseValue(fx))
  ELSE 0

\* An ink layer with the Subtractive and Normal branches exchanged.
\* The ink blend with the layer alpha taken without inkamount.
ApplyInkWithoutInkAmount(U, ch, coverage, inkamount, rgbscreen) ==
  LET ink == <<U.ink[ch][1], U.ink[ch][2], U.ink[ch][3]>>
      alpha == FMul(U.ink[ch][4], coverage)
      add(i) == Clamp(rgbscreen[i] + FMul(ink[i], alpha), 0, One)
  IN  IF U.show[ch] /\ coverage > 0
      THEN IF U.blendMode = 0
           THEN Mix3(rgbscreen,
                     <<FMul(rgbscreen[1], ink[1]), FMul(rgbscreen[2], ink[2]),
                       FMul(rgbscreen[3], ink[3])>>, alpha)
           ELSE IF U.blendMode = 1
           THEN <<add(1), add(2), add(3)>>
           ELSE Mix3(rgbscreen, ink, alpha)
      ELSE rgbscreen

ApplyInkModesExchanged(U, ch, coverage, inkamount, rgbscreen) ==
  LET ink == <<U.ink[ch][1], U.ink[ch][2], U.ink[ch][3]>>
      alpha == FMul(FMul(U.ink[ch][4], coverage), inkamount)
      add(i) == Clamp(rgbscreen[i] + FMul(ink[i], alpha), 0, One)
  IN  IF U.show[ch] /\ coverage > 0
      THEN IF U.blendMode = 2
           THEN Mix3(rgbscreen,
                     <<FMul(rgbscreen[1], ink[1]), FMul(rgbscreen[2], ink[2]),
                       FMul(rgbscreen[3], ink[3])>>, alpha)
           ELSE IF U.blendMode = 1
           THEN <<add(1), add(2), add(3)>>
           ELSE Mix3(rgbscreen, ink, alpha)
      ELSE rgbscreen

\* One ink layer applied to the running composite rgbscreen.
ApplyInk(U, ch, coverage, inkamount, rgbscreen) ==
  LET ink == <<U.ink[ch][1], U.ink[ch][2], U.ink[ch][3]>>
      alpha == FMul(FMul(U.ink[ch][4], coverage), inkamount)
      add(i) == Clamp(rgbscreen[i] + FMul(ink[i], alpha), 0, One)
  IN  IF U.show[ch] /\ coverage > 0
      THEN IF U.blendMode = 0
           THEN Mix3(rgbscreen,
                     <<FMul(rgbscreen[1], ink[1]), FMul(rgbscreen[2], ink[2]),
                       FMul(rgbscreen[3], ink[3])>>, alpha)
           ELSE IF U.blendMode = 1
           THEN <<add(1), add(2), add(3)>>
           ELSE Mix3(rgbscreen, ink, alpha)
      ELSE rgbscreen

\* blend: the anti-moire ramp on the grid density per pixel.
MoireBlend(U, fx) ==
  LET d == PixelStep(fx)
      afwidth == 2 * U.frequency * Max(d[1], d[2])
  IN  IF fx.derivatives THEN Smoothstep(F(7, 10), F(14, 10), afwidth, fx.undef) ELSE 0

\* The final mix with its first two arguments exchanged.
FinalColorArgsExchanged(U, fx, rgbscreen, texcolor) ==
  Mix3(texcolor, rgbscreen, MoireBlend(U, fx))

\* gl_FragColor.rgb = mix(rgbscreen, texcolor, blend)
FinalColor(U, fx, rgbscreen, texcolor) == Mix3(rgbscreen, texcolor, MoireBlend(U, fx))

------------------------------------------------------------------------
\* Host side: the parameter snapshot and its binding to uniforms.

\* DEFAULTS of WebGLHalftoneProcessor; colours are the bytes of the hex
\* string, alphas and sliders are floats.
DEFAULTS ==
  [frequency |-> 85, dotSize |-> One, roughness |-> 2 * One, fuzz |-> F(1, 10),
   paperNoise |-> 0, inkNoise |-> F(6, 10), randomness |-> F(2, 10),
   contrast |-> One, lightness |-> 0, blur |-> One, threshold |-> F(5, 100),
   blendMode |-> 0,
   angle |-> [ch \in ChannelSet |->
                CASE ch = "C" -> 15 [] ch = "M" -> 75 [] ch = "Y" -> 0 [] ch = "K" -> 45],
   inkHex |-> [ch \in ChannelSet |->
                CASE ch = "C" -> <<0, 255, 255>> [] ch = "M" -> <<255, 0, 255>>
                  [] ch = "Y" -> <<255, 255, 0>> [] ch = "K" -> <<0, 0, 0>>],
   inkAlpha |-> [ch \in ChannelSet |-> F(95, 100)],
   paperColor |-> <<248, 244, 232>>,
   show |-> [ch \in ChannelSet |-> TRUE]]

\* hexToRgba(hex, alpha): each byte / 255, and the alpha as given.
hexToRgba(hex, alpha) ==
  <<(hex[1] * One) \div 255, (hex[2] * One) \div 255, (hex[3] * One) \div 255, alpha>>

\* A binding that sets every u_show* uniform to true.
UniformsAllShown(p, dims) ==
  [resolution |-> dims,
   frequency |-> p.frequency, dotSize |-> p.dotSize, roughness |-> p.roughness,
   fuzz |-> p.fuzz, paperNoise |-> p.paperNoise, inkNoise |-> p.inkNoise,
   randomness |-> p.randomness, contrast |-> p.contrast, lightness |-> p.lightness,
   blur |-> p.blur, threshold |-> p.threshold,
   paperColor |-> LET c == hexToRgba(p.paperColor, One) IN <<c[1], c[2], c[3]>>,
   angle |-> p.angle,
   ink |-> [ch \in ChannelSet |-> hexToRgba(p.inkHex[ch], p.inkAlpha[ch])],
   show |-> [ch \in ChannelSet |-> TRUE],
   blendMode |-> p.blendMode]

\* The uniform values render() sets from its parameter snapshot p and the
\* display size dims.
Uniforms(p, dims) ==
  [resolution |-> dims,
   frequency |-> p.frequency, dotSize |-> p.dotSize, roughness |-> p.roughness,
   fuzz |-> p.fuzz, paperNoise |-> p.paperNoise, inkNoise |-> p.inkNoise,
   randomness |-> p.randomness, contrast |-> p.contrast, lightness |-> p.lightness,
   blur |-> p.blur, threshold |-> p.threshold,
   paperColor |-> LET c == hexToRgba(p.paperColor, One) IN <<c[1], c[2], c[3]>>,
   angle |-> p.angle,
   ink |-> [ch \in ChannelSet |-> hexToRgba(p.inkHex[ch], p.inkAlpha[ch])],
   show |-> p.show,
   blendMode |-> p.blendMode]

\* Magenta and yellow composited in the other order.
InkOrderYellowFirst == <<"C", "Y", "M", "K">>

\* The order in which main() composites the ink layers onto the paper.
InkOrder == <<"C", "M", "Y", "K">>

\* c, m, y, k of main() as a tuple in the order of Channels.
Coverages(U, tex, fx) ==
  [i \in 1..4 |->
     Local(ChannelCmyk(tex, U, fx, Channels[i])[i],
           LAMBDA v : ChannelCoverage(U, fx, Channels[i], v))]

\* rgbscreen after the ink layer InkOrder[i] is applied to rgb.
InkLayer(U, fx, covs, i, rgb) ==
  ApplyInk(U, InkOrder[i], covs[ChannelIndex(InkOrder[i])], InkAmount(U, fx), rgb)

\* main(): gl_FragColor.rgb of the fragment fx for uniforms U and the bound
\* texture tex.
main(U, tex, fx) ==
  Local(<<Coverages(U, tex, fx)[1], Coverages(U, tex, fx)[2],
          Coverages(U, tex, fx)[3], Coverages(U, tex, fx)[4]>>, LAMBDA covs :
    Local(InkLayer(U, fx, covs, 1, Paper(U, fx)), LAMBDA r1 :
      Local(InkLayer(U, fx, covs, 2, r1), LAMBDA r2 :
        Local(InkLayer(U, fx, covs, 3, r2), LAMBDA r3 :
          Local(InkLayer(U, fx, covs, 4, r3), LAMBDA r4 :
            Local(TexColor(tex, U, fx), LAMBDA texc :
              FinalColor(U, fx, r4, texc)))))))

------------------------------------------------------------------------
\* Source images, shader builds and fragments.

Solid(c) == [left |-> c, right |-> c]

White == <<One, One, One>>
Black == <<0, 0, 0>>
Red == <<One, 0, 0>>
Yellow == <<One, One, 0>>
Gray == <<F(1, 2), F(1, 2), F(1, 2)>>
Teal == <<F(2, 10), F(6, 10), F(5, 10)>>
Cream == <<One, One, F(97, 100)>>

\* Source images: solid colours and one vertical edge.
Textures ==
  {Solid(White), Solid(Black), Solid(Red), Solid(Yellow), Solid(Gray),
   Solid(Teal), Solid(Cream), [left |-> Black, right |-> White]}

\* The shader builds: variant, extension availability, and what the GPU
\* returns where GLSL leaves a result undefined.
Builds ==
  [variant : {"rotgrid", "classic"}, derivatives : BOOLEAN, undef : {0, One, NaN}]

\* v_texCoord of the fragments looked at.  With the default frequency and a
\* 3:2 canvas, <<39, 59>> is the centre of a yellow cell, <<0, 1000>> lies
\* at distance 1.0 from one, <<2500, 7500>> is inside a black cell.
Positions ==
  {<<39, 59>>, <<0, 1000>>, <<2500, 7500>>, <<3333, 2500>>, <<5000, 5000>>}

NoiseValues == {0, F(1, 2), 0 - F(1, 2)}

Fragment(b, size, st, n) ==
  [variant |-> b.variant, derivatives |-> b.derivatives, undef |-> b.undef,
   canvas |-> size, dims |-> size, st |-> st, noise |-> n]

------------------------------------------------------------------------
\* One fragment evaluated step by step.

VARIABLES
  settings,   \* the parameter snapshot given to render()
  tex,        \* the bound texture: [left, right] solid colours
  fx,         \* the fragment: [variant, derivatives, undef, canvas, dims, st, noise]
  U,          \* the uniforms as bound
  pc,         \* position in render() / main()
  texcolor,   \* texcolor of main()
  cmyk,       \* per channel, the cmyk vector that drives it
  cov,        \* c, m, y, k of main(): dot coverage per channel
  rgbscreen,  \* the running composite
  layer,      \* index in InkOrder of the next ink layer
  inked,      \* the channels composited so far, in order
  fragColor   \* gl_FragColor.rgb

\* The state of WebGLHalftoneProcessor.
VARIABLES
  params,         \* the parameter state of the component (useState)
  dimensions,     \* the dimensions state: display size, <<0, 0>> before a fit
  renderRef,      \* renderRef.current: the render closure last stored
  timeoutId,      \* the pending debounce timeout and the closure it will call
  effectsPending, \* a commit whose effects have not run yet
  glUniforms,     \* the uniform values held by the GL program
  textureRef,     \* textureRef.current and the image the texture holds
  media,          \* the selected file and how far its load has come
  decoded,        \* the video element's current frame, in decode order
  framebuffer,    \* the last draw: its snapshot, size, texture and frame
  revs            \* every parameter state committed so far, in order

\* The media lifecycle of the two hosts: the web component
\* WebGLHalftoneProcessor and the Figma plugin UI with its HalftoneRenderer.
VARIABLES
  host,         \* "web" or "figma"
  fault,        \* what the browser refuses, if anything
  imageFile,    \* the imageFile prop / the file of the last image-data message
  swaps,        \* how many files have been selected so far
  glRef,        \* glRef.current / this.gl is a context
  programRef,   \* programRef.current / this.program is a linked program
  glVersionDue, \* the commit of setGlVersion has not happened yet
  listening,    \* window.onmessage is installed (plugin)
  loads,        \* every load started so far, in order
  glTextures,   \* the textures alive in the GL context and what they hold
  created,      \* the number of createTexture calls so far
  textureId,    \* the texture textureRef.current / this.texture names (0: null)
  canvasSize,   \* canvas.width and canvas.height
  uiMessage,    \* the message the UI shows in place of the canvas
  downloadDue,  \* the animation frame of handleDownload is pending
  exported      \* the raster exported last

\* The plugin's main thread (code.ts), the page it works on, and the part
\* of the plugin UI that talks to it.
VARIABLES
  selection,      \* figma.currentPage.selection, as a sequence of node ids
  nodes,          \* per node of the page: the image its IMAGE fill names
  selectedNodeId, \* selectedNodeId of code.ts ("null": null)
  calls,          \* every sendSelectedImage call so far, in order
  toUi,           \* every message posted with figma.ui.postMessage, in order
  uiRead,         \* how many of them the UI's handleMessage has handled
  uiNode,         \* the node whose image the UI's renderer holds
  toMain,         \* messages the UI posted to the main thread, not yet handled
  applies,        \* how many apply-halftone messages the UI has posted
  outcomes        \* what each handled apply-halftone message did

\* Recording and zoom of WebGLHalftoneProcessor; zoom of the plugin UI.
VARIABLES
  isRecording,      \* the isRecording state
  mediaRecorderRef, \* mediaRecorderRef.current: index in recorders (0: null)
  recorders,        \* the state of every MediaRecorder created, in order
  zoom              \* the zoom state / the zoom variable of ui.ts

pluginVars ==
  <<selection, nodes, selectedNodeId, calls, toUi, uiRead, uiNode, toMain, applies,
    outcomes>>

recordVars == <<isRecording, mediaRecorderRef, recorders>>

sideVars == <<pluginVars, recordVars, zoom>>

mediaVars ==
  <<host, fault, imageFile, swaps, glRef, programRef, glVersionDue, listening,
    loads, glTextures, created, textureId, canvasSize, uiMessage, downloadDue,
    exported>>

shaderVars ==
  <<settings, tex, fx, U, pc, texcolor, cmyk, cov, rgbscreen, layer, inked, fragColor>>

hostVars ==
  <<params, dimensions, renderRef, timeoutId, effectsPending, glUniforms,
    textureRef, media, decoded, framebuffer, revs>>

vars == <<shaderVars, hostVars, mediaVars, sideVars>>

\* A render closure: the parameter values and dimensions that useCallback
\* captured when the component last rendered.
Closure(p, dims) == [set |-> TRUE, p |-> p, dims |-> dims]
NoClosure == [set |-> FALSE, p |-> DEFAULTS, dims |-> <<0, 0>>]

\* textureRef.current = null, and a texture with the image it holds; frame
\* is the video frame uploaded last (0: none).
NoTexture == [bound |-> FALSE, data |-> Solid(Black), frame |-> 0]

NoMedia == [kind |-> "none", phase |-> "idle", data |-> Solid(Black), render |-> NoClosure]

\* The canvas before any draw.
BlankCanvas ==
  [drawn |-> FALSE, p |-> DEFAULTS, dims |-> <<0, 0>>, data |-> Solid(Black),
   frame |-> 0]

\* The uniforms of a freshly linked program: all zero.
ZeroUniforms ==
  [resolution |-> <<0, 0>>,
   frequency |-> 0, dotSize |-> 0, roughness |-> 0, fuzz |-> 0, paperNoise |-> 0,
   inkNoise |-> 0, randomness |-> 0, contrast |-> 0, lightness |-> 0, blur |-> 0,
   threshold |-> 0, paperColor |-> <<0, 0, 0>>,
   angle |-> [ch \in ChannelSet |-> 0],
   ink |-> [ch \in ChannelSet |-> <<0, 0, 0, 0>>],
   show |-> [ch \in ChannelSet |-> FALSE],
   blendMode |-> 0]

\* The component after mount: default parameters, no file, the effects of
\* the first commit run (renderRef stored, the debounce timeout pending).
HostInit ==
  /\ params = DEFAULTS
  /\ dimensions = <<0, 0>>
  /\ renderRef = Closure(DEFAULTS, <<0, 0>>)
  /\ timeoutId = Closure(DEFAULTS, <<0, 0>>)
  /\ effectsPending = FALSE
  /\ glUniforms = ZeroUniforms
  /\ textureRef = NoTexture
  /\ media = NoMedia
  /\ decoded = 0
  /\ framebuffer = BlankCanvas
  /\ revs = <<DEFAULTS>>

\* No file selected.
NoFile == [name |-> "none", kind |-> "none", ok |-> FALSE, size |-> <<0, 0>>]

\* Nothing exported yet.
NoExport == [made |-> FALSE, size |-> <<0, 0>>, canvas |-> BlankCanvas]

\* The size of a canvas element that has not been sized.
DefaultCanvasSize == <<300, 150>>

\* The lifecycle at rest with WebGL initialised: the render loop and the
\* shader run on a working context, and no file passes through the
\* lifecycle.
MediaIdle ==
  /\ host = "web"
  /\ fault = "none"
  /\ imageFile = NoFile
  /\ swaps = 0
  /\ glRef = TRUE
  /\ programRef = TRUE
  /\ glVersionDue = FALSE
  /\ listening = FALSE
  /\ loads = <<>>
  /\ glTextures = {}
  /\ created = 0
  /\ textureId = 0
  /\ canvasSize = DefaultCanvasSize
  /\ uiMessage = "none"
  /\ downloadDue = FALSE
  /\ exported = NoExport

\* The nodes of the page: two rectangles with an image fill, a rectangle
\* with a solid fill only, a group (no fills property), and the rectangles
\* the plugin may create.
NodeIds == {"A", "B", "S", "G", "R1", "R2"}

\* The page before the plugin has changed it: per node the image of its
\* IMAGE fill, "none" without such a fill, "absent" for a node not there.
Page ==
  [n \in NodeIds |->
     CASE n = "A" -> "imgA" [] n = "B" -> "imgB" [] n \in {"S", "G"} -> "none"
       [] OTHER -> "absent"]

\* The plugin's main thread with nothing selected and no message sent.
PluginIdle ==
  /\ selection = <<>>
  /\ nodes = Page
  /\ selectedNodeId = "null"
  /\ calls = <<>>
  /\ toUi = <<>>
  /\ uiRead = 0
  /\ uiNode = "none"
  /\ toMain = <<>>
  /\ applies = 0
  /\ outcomes = <<>>

\* useState(false) and useRef(null) of the recording; no recorder yet.
RecordIdle ==
  /\ isRecording = FALSE
  /\ mediaRecorderRef = 0
  /\ recorders = <<>>

SideIdle == PluginIdle /\ RecordIdle /\ zoom = One

NoVec == <<0, 0, 0>>
NoUniforms == Uniforms(DEFAULTS, <<1, 1>>)

ShaderInit(SettingsSet, TextureSet, FragmentSet) ==
  /\ settings \in SettingsSet
  /\ tex \in TextureSet
  /\ fx \in FragmentSet
  /\ U = NoUniforms
  /\ pc = "bind"
  /\ texcolor = NoVec
  /\ cmyk = [ch \in ChannelSet |-> <<0, 0, 0, 0>>]
  /\ cov = [ch \in ChannelSet |-> 0]
  /\ rgbscreen = NoVec
  /\ layer = 1
  /\ inked = <<>>
  /\ fragColor = NoVec
  /\ HostInit
  /\ MediaIdle
  /\ SideIdle

\* render(): every uniform is set from the snapshot, then the draw is issued.
BindUniforms ==
  /\ pc = "bind"
  /\ U' = Uniforms(settings, fx.dims)
  /\ pc' = "sample"
  /\ UNCHANGED <<settings, tex, fx, texcolor, cmyk, cov, rgbscreen, layer, inked, fragColor>>
  /\ UNCHANGED <<hostVars, mediaVars, sideVars>>

\* main(): sample (and blur) the source, adjust it, convert to CMYK.
SampleSource ==
  /\ pc = "sample"
  /\ texcolor' = TexColor(tex, U, fx)
  /\ cmyk' = [ch \in ChannelSet |-> ChannelCmyk(tex, U, fx, ch)]
  /\ pc' = "dots"
  /\ UNCHANGED <<settings, tex, fx, U, cov, rgbscreen, layer, inked, fragColor>>
  /\ UNCHANGED <<hostVars, mediaVars, sideVars>>

\* main(): the four halftoneChannel calls, then rgbscreen = paper.
HalftoneDots ==
  /\ pc = "dots"
  /\ cov' = [ch \in ChannelSet |-> ChannelCoverage(U, fx, ch, cmyk[ch][ChannelIndex(ch)])]
  /\ rgbscreen' = Paper(U, fx)
  /\ layer' = 1
  /\ pc' = "ink"
  /\ UNCHANGED <<settings, tex, fx, U, texcolor, cmyk, inked, fragColor>>
  /\ UNCHANGED <<hostVars, mediaVars, sideVars>>

\* main(): the next ink layer of InkOrder.
CompositeInk ==
  /\ pc = "ink"
  /\ LET ch == InkOrder[layer]
     IN  /\ rgbscreen' = ApplyInk(U, ch, cov[ch], InkAmount(U, fx), rgbscreen)
         /\ inked' = IF U.show[ch] /\ cov[ch] > 0 THEN Append(inked, ch) ELSE inked
  /\ layer' = layer + 1
  /\ pc' = IF layer = Len(InkOrder) THEN "final" ELSE "ink"
  /\ UNCHANGED <<settings, tex, fx, U, texcolor, cmyk, cov, fragColor>>
  /\ UNCHANGED <<hostVars, mediaVars, sideVars>>

\* main(): the anti-moire blend and the write of gl_FragColor.
WriteFragColor ==
  /\ pc = "final"
  /\ fragColor' = FinalColor(U, fx, rgbscreen, texcolor)
  /\ pc' = "done"
  /\ UNCHANGED <<settings, tex, fx, U, texcolor, cmyk, cov, rgbscreen, layer, inked>>
  /\ UNCHANGED <<hostVars, mediaVars, sideVars>>

ShaderNext ==
  \/ BindUniforms
  \/ SampleSource
  \/ HalftoneDots
  \/ CompositeInk
  \/ WriteFragColor

------------------------------------------------------------------------
\* Inputs of the dot-stage specification.

DotFragments ==
  {Fragment(b, <<600, 400>>, st, n) : b \in Builds, st \in Positions, n \in {0, F(1, 2)}}

\* Parameter snapshots for the dot stage: the defaults, threshold, fuzz and
\* randomness at the ends of their sliders with the blur off, and a dotSize
\* below its slider's range (render() passes the number on as it is).
DotSettings ==
  {DEFAULTS} \cup
  {[DEFAULTS EXCEPT !.threshold = t, !.fuzz = z, !.randomness = r, !.blur = 0] :
     t \in {F(5, 100), F(1, 2)}, z \in {0, F(1, 10)}, r \in {0, F(2, 10)}} \cup
  {[DEFAULTS EXCEPT !.dotSize = 0 - F(5, 100), !.randomness = 0, !.blur = 0]}

InitDots == ShaderInit(DotSettings, Textures, DotFragments)
SpecDots == InitDots /\ [][ShaderNext]_vars

------------------------------------------------------------------------
\* Inputs of the compositing specification.

Navy == <<F(1, 10), F(2, 10), F(4, 10)>>

InkTextures == {Solid(Yellow), Solid(Black), Solid(Teal), Solid(Navy)}

\* The visibility toggles tried: all on, all off, one channel only, one
\* channel off.
ShowSets == {ChannelSet, {}, {"Y"}, {"K"}, ChannelSet \ {"C"}}

InkSettings ==
  {[DEFAULTS EXCEPT !.show = [ch \in ChannelSet |-> ch \in vis],
                    !.blendMode = mode,
                    !.inkAlpha = [ch \in ChannelSet |-> a],
                    !.paperNoise = pn,
                    !.blur = 0] :
     vis \in ShowSets, mode \in 0..2, a \in {F(95, 100), One}, pn \in {0, F(1, 2)}}

\* A canvas of 600 x 400 pixels, and one so small that the screen is finer
\* than the pixels.
InkFragments ==
  {Fragment(b, size, st, n) :
     b \in {x \in Builds : x.undef = 0},
     size \in {<<600, 400>>, <<120, 80>>},
     st \in {<<39, 59>>, <<2500, 7500>>, <<3333, 2500>>},
     n \in {0, F(1, 2)}}

InitInk == ShaderInit(InkSettings, InkTextures, InkFragments)
SpecInk == InitInk /\ [][ShaderNext]_vars

------------------------------------------------------------------------
\* The render loop of WebGLHalftoneProcessor.

\* Bounds: parameter changes made by the user, video frames decoded.
MaxChanges == 2
MaxFrames == 2

\* The display size fitCanvasToContainer computes for the selected file.
DisplaySize == <<600, 400>>

\* The pixel of the canvas the model looks at.
Probe ==
  Fragment([variant |-> "rotgrid", derivatives |-> TRUE, undef |-> 0],
           DisplaySize, <<3333, 2500>>, 0)

\* The image file, and frame k of the video file.
HostImage == Solid(Teal)
FrameImage(k) == Solid(<<F(2, 10), F(6, 10), k * F(2, 10)>>)

\* The shader is idle while the host runs.
ShaderIdle ==
  /\ settings = DEFAULTS
  /\ tex = Solid(Black)
  /\ fx = Probe
  /\ U = NoUniforms
  /\ pc = "idle"
  /\ texcolor = NoVec
  /\ cmyk = [ch \in ChannelSet |-> <<0, 0, 0, 0>>]
  /\ cov = [ch \in ChannelSet |-> 0]
  /\ rgbscreen = NoVec
  /\ layer = 1
  /\ inked = <<>>
  /\ fragColor = NoVec

Init == HostInit /\ ShaderIdle /\ MediaIdle /\ SideIdle

\* The parameter values render() reads with live the component's current
\* state, but for the blend mode, read from the current state.
RenderInputsLiveBlendMode(c, live) == [c.p EXCEPT !.blendMode = live.blendMode]

\* The parameter values render() reads: those of its closure c, whatever
\* the component's current state live is.
RenderInputs(c, live) == c.p

\* textureRef.current names a texture that gl.deleteTexture has deleted.
\* (The render loop alone keeps no texture names: textureId is 0 there.)
DeletedTexture == textureId # 0 /\ \A x \in glTextures : x.id # textureId

\* The uniform setters of render() with the u_fuzz setter left out.
BindAllButFuzz(gl, p, dims) == [Uniforms(p, dims) EXCEPT !.fuzz = gl.fuzz]

\* The GL uniform state after the setUniform calls of render(): every
\* uniform is overwritten, nothing of the earlier state gl survives.
BindAll(gl, p, dims) == Uniforms(p, dims)

\* render() as the closure c, with t the texture textureRef.current holds:
\* return early without a context, a program or a texture, or with zero
\* dimensions; otherwise clear, bind
\* the texture, set the uniforms, draw.  The canvas records the draw: the
\* closure's snapshot and size, the texture and its frame.  Binding a
\* deleted texture raises a GL error, which the getError check before the
\* draw call finds: the canvas stays cleared and nothing is drawn.
render(c, t) ==
  IF glRef /\ programRef /\ t.bound /\ c.dims[1] # 0 /\ c.dims[2] # 0
  THEN /\ glUniforms' = BindAll(glUniforms, RenderInputs(c, params), c.dims)
       /\ framebuffer' = IF t = textureRef /\ DeletedTexture
                         THEN BlankCanvas
                         ELSE [drawn |-> TRUE, p |-> c.p, dims |-> c.dims,
                               data |-> t.data, frame |-> t.frame]
  ELSE UNCHANGED <<glUniforms, framebuffer>>

\* The colour drawArrays left at the probe pixel: main() run with the
\* uniforms the program holds and the texture of the draw.
Pixel == main(glUniforms, framebuffer.data, Probe)

\* A state setter called with a new value: the component re-renders, so
\* render is a new closure and the effects that depend on it are due.
Commit(p) ==
  /\ Len(revs) <= MaxChanges
  /\ p # params
  /\ params' = p
  /\ revs' = Append(revs, p)
  /\ effectsPending' = TRUE
  /\ UNCHANGED <<dimensions, renderRef, timeoutId, glUniforms, textureRef, media,
                 decoded, framebuffer>>
  /\ UNCHANGED <<shaderVars, mediaVars, sideVars>>

\* A fuzz setter that also writes the roughness state.
setFuzzAndRoughness ==
  \E z \in {F(1, 10), F(3, 10)} : Commit([params EXCEPT !.fuzz = z, !.roughness = z])

setFuzz == \E z \in {F(1, 10), F(3, 10)} : Commit([params EXCEPT !.fuzz = z])

setBlendMode == \E m \in {0, 2} : Commit([params EXCEPT !.blendMode = m])

\* Reset: every setter is called with its default in one event, one commit.
resetToDefaults == Commit(DEFAULTS)

\* A debounce that leaves a pending timeout in place.
RescheduleKeepPending(old, c) == IF old.set THEN old ELSE c

\* The debounce effect: clearTimeout of the pending timeout old (the
\* effect's cleanup), then setTimeout of the new closure c.
Reschedule(old, c) == c

\* The effects that depend on render: renderRef.current = render, and the
\* debounce effect.
RunEffects ==
  /\ effectsPending
  /\ renderRef' = Closure(params, dimensions)
  /\ timeoutId' = Reschedule(timeoutId, Closure(params, dimensions))
  /\ effectsPending' = FALSE
  /\ UNCHANGED <<params, dimensions, glUniforms, textureRef, media, decoded,
                 framebuffer, revs>>
  /\ UNCHANGED <<shaderVars, mediaVars, sideVars>>

\* The debounce timeout fires and calls the closure it was set with.
TimeoutFires ==
  /\ timeoutId.set
  /\ render(timeoutId, textureRef)
  /\ timeoutId' = NoClosure
  /\ UNCHANGED <<params, dimensions, renderRef, effectsPending, textureRef, media,
                 decoded, revs>>
  /\ UNCHANGED <<shaderVars, mediaVars, sideVars>>

\* The imageFile prop becomes an image file: the media effect runs with
\* the render closure of that commit and starts the load.
SelectImage ==
  /\ media.kind = "none"
  /\ media' = [kind |-> "image", phase |-> "loading", data |-> HostImage,
               render |-> Closure(params, dimensions)]
  /\ UNCHANGED <<params, dimensions, renderRef, timeoutId, effectsPending, glUniforms,
                 textureRef, decoded, framebuffer, revs>>
  /\ UNCHANGED <<shaderVars, mediaVars, sideVars>>

\* img.onload: setupTexture, upload of the image, textureRef.current set,
\* an animation frame requested.
ImageOnload ==
  /\ media.kind = "image" /\ media.phase = "loading"
  /\ textureRef' = [bound |-> TRUE, data |-> media.data, frame |-> 0]
  /\ media' = [media EXCEPT !.phase = "raf"]
  /\ UNCHANGED <<params, dimensions, renderRef, timeoutId, effectsPending, glUniforms,
                 decoded, framebuffer, revs>>
  /\ UNCHANGED <<shaderVars, mediaVars, sideVars>>

\* The animation frame of the image load: fitCanvasToContainer (which sets
\* the dimensions state to a new object), then render() of the closure the
\* effect was created with.
ImageFrame ==
  /\ media.kind = "image" /\ media.phase = "raf"
  /\ dimensions' = DisplaySize
  /\ effectsPending' = TRUE
  /\ render(media.render, textureRef)
  /\ media' = [media EXCEPT !.phase = "shown"]
  /\ UNCHANGED <<params, renderRef, timeoutId, textureRef, decoded, revs>>
  /\ UNCHANGED <<shaderVars, mediaVars, sideVars>>

\* The image the user swaps in for the first one.
SwappedImage == Solid(Yellow)

\* handleSwapFile with another image while the first is shown: the cleanup
\* of the media effect deletes the texture, and the effect runs again with
\* the render closure of that commit.
handleSwapFile ==
  /\ media.kind = "image" /\ media.phase = "shown" /\ media.data = HostImage
  /\ ~effectsPending
  /\ media' = [kind |-> "image", phase |-> "loading", data |-> SwappedImage,
               render |-> Closure(params, dimensions)]
  /\ textureRef' = NoTexture
  /\ UNCHANGED <<params, dimensions, renderRef, timeoutId, effectsPending, glUniforms,
                 decoded, framebuffer, revs>>
  /\ UNCHANGED <<shaderVars, mediaVars, sideVars>>

\* The imageFile prop becomes a video file: video.src set, video.load().
SelectVideo ==
  /\ media.kind = "none"
  /\ media' = [kind |-> "video", phase |-> "loading", data |-> Solid(Black),
               render |-> Closure(params, dimensions)]
  /\ UNCHANGED <<params, dimensions, renderRef, timeoutId, effectsPending, glUniforms,
                 textureRef, decoded, framebuffer, revs>>
  /\ UNCHANGED <<shaderVars, mediaVars, sideVars>>

\* The video element presents its next decoded frame.
DecodeFrame ==
  /\ media.kind = "video"
  /\ decoded < MaxFrames
  /\ decoded' = decoded + 1
  /\ UNCHANGED <<params, dimensions, renderRef, timeoutId, effectsPending, glUniforms,
                 textureRef, media, framebuffer, revs>>
  /\ UNCHANGED <<shaderVars, mediaVars, sideVars>>

\* A texture upload that takes the frame after the one uploaded last.
CurrentFrameQueued(t, d) == IF t.frame < d THEN t.frame + 1 ELSE d

\* The frame texImage2D(..., video) uploads into the texture t: the frame
\* the element presents at the call, d.
CurrentFrame(t, d) == d

\* One pass of updateVideo on the texture t: with readyState at least
\* HAVE_CURRENT_DATA upload the element's frame and call renderRef.current.
VideoPass(t) ==
  IF decoded > 0
  THEN LET k == CurrentFrame(t, decoded)
           up == [t EXCEPT !.data = FrameImage(k), !.frame = k]
       IN  textureRef' = up /\ render(renderRef, up)
  ELSE textureRef' = t /\ UNCHANGED <<glUniforms, framebuffer>>

\* handleLoadedMetadata: setupTexture, textureRef.current set,
\* fitCanvasToContainer, video.play(), and the first pass of updateVideo.
handleLoadedMetadata ==
  /\ media.kind = "video" /\ media.phase = "loading"
  /\ dimensions' = DisplaySize
  /\ effectsPending' = TRUE
  /\ VideoPass([bound |-> TRUE, data |-> Solid(Black), frame |-> 0])
  /\ media' = [media EXCEPT !.phase = "playing"]
  /\ UNCHANGED <<params, renderRef, timeoutId, decoded, revs>>
  /\ UNCHANGED <<shaderVars, mediaVars, sideVars>>

\* updateVideo, called from requestAnimationFrame.
updateVideo ==
  /\ media.kind = "video" /\ media.phase = "playing"
  /\ VideoPass(textureRef)
  /\ UNCHANGED <<params, dimensions, renderRef, timeoutId, effectsPending, media,
                 decoded, revs>>
  /\ UNCHANGED <<shaderVars, mediaVars, sideVars>>

Next ==
  \/ setFuzz
  \/ setBlendMode
  \/ resetToDefaults
  \/ RunEffects
  \/ TimeoutFires
  \/ SelectImage
  \/ ImageOnload
  \/ ImageFrame
  \/ SelectVideo
  \/ DecodeFrame
  \/ handleLoadedMetadata
  \/ updateVideo

Spec == Init /\ [][Next]_vars

\* React runs the effects of every commit, and a timeout that stays set
\* fires.
FairSpec == Spec /\ WF_vars(RunEffects) /\ WF_vars(TimeoutFires)

\* The render loop with a swap of the image.
SwapNext == Next \/ handleSwapFile

SpecSwap == Init /\ [][SwapNext]_vars

------------------------------------------------------------------------
\* The media lifecycle: initialisation, selecting and swapping files, the
\* loads in flight, the textures they create, and the export.

\* Bound: files selected by the user.
MaxSwaps == 2

\* The files the user selects among: two stills of different shape, a file
\* that does not decode, two clips of different shape, a clip that does not
\* decode.
MediaFiles ==
  {[name |-> "a.png", kind |-> "image", ok |-> TRUE, size |-> <<1200, 800>>],
   [name |-> "b.png", kind |-> "image", ok |-> TRUE, size |-> <<300, 400>>],
   [name |-> "x.png", kind |-> "image", ok |-> FALSE, size |-> <<0, 0>>],
   [name |-> "v.mp4", kind |-> "video", ok |-> TRUE, size |-> <<1920, 1080>>],
   [name |-> "w.mp4", kind |-> "video", ok |-> TRUE, size |-> <<640, 640>>],
   [name |-> "x.mp4", kind |-> "video", ok |-> FALSE, size |-> <<0, 0>>]}

\* The pixels of file f; for a clip, of its frame k.
Pixels(f, k) ==
  CASE f.name = "a.png" -> Solid(Teal)
    [] f.name = "b.png" -> Solid(Yellow)
    [] f.name = "v.mp4" -> FrameImage(k)
    [] f.name = "w.mp4" -> Solid(<<F(6, 10), F(2, 10), k * F(2, 10)>>)
    [] OTHER -> Solid(Black)

\* img.onload: the size of the image scaled so that its longer edge is at
\* most maxDimension.
maxDimension == 600
ScaledSize(size) ==
  IF size[1] > maxDimension \/ size[2] > maxDimension
  THEN <<(size[1] * maxDimension) \div Max(size[1], size[2]),
         (size[2] * maxDimension) \div Max(size[1], size[2])>>
  ELSE size

\* The room the container leaves for the canvas, in CSS pixels.
Container == <<600, 400>>

\* fitCanvasToContainer(width, height): the display size, the largest of
\* the given shape that fits the container (devicePixelRatio 1).
fitCanvasToContainer(size) ==
  IF Container[1] * size[2] <= Container[2] * size[1]
  THEN <<Max(1, Container[1]), Max(1, (size[2] * Container[1]) \div size[1])>>
  ELSE <<Max(1, (size[1] * Container[2]) \div size[2]), Max(1, Container[2])>>

\* A load: the file, whether the effect that started it has not been
\* cleaned up yet, how far it has come, the render closure of the commit
\* that started it, and the texture its frame loop updates.
NewLoad(f, c) ==
  [file |-> f, live |-> TRUE, phase |-> "decoding", render |-> c, texture |-> 0]

\* The cleanup of the media effect, on the loads: a video's frame loop is
\* cancelled and its listeners are removed; an image's handlers stay.
Cleanup(ls) ==
  [i \in 1..Len(ls) |->
     IF ls[i].live
     THEN [ls[i] EXCEPT !.live = FALSE,
                        !.phase = IF ls[i].file.kind = "video" /\ @ \in {"decoding", "playing"}
                                  THEN "stopped" ELSE @]
     ELSE ls[i]]

\* gl.deleteTexture(id).
Deleted(T, id) == {t \in T : t.id # id}

\* setupTexture(): delete the texture textureRef.current names, create one.
setupTexture(T) ==
  Deleted(T, textureId) \cup {[id |-> created + 1, file |-> "none", size |-> <<0, 0>>]}

\* gl.texImage2D(..., element) into texture h: the texture takes the
\* element's pixels at the element's own size.
texImage2D(T, h, f) ==
  {IF t.id = h THEN [id |-> h, file |-> f.name, size |-> f.size] ELSE t : t \in T}

\* Whether render() as the closure c with texture t gets to its draw call.
Draws(c, t) == glRef /\ programRef /\ t.bound /\ c.dims[1] # 0 /\ c.dims[2] # 0

\* The canvas after canvas.width and canvas.height are set to d: a change
\* of size clears it.
Resized(d) == IF d # canvasSize THEN BlankCanvas ELSE framebuffer

\* The canvas is set to size d, then render() runs as the closure c.
FitThenRender(d, c, t) ==
  IF Draws(c, t)
  THEN render(c, t)
  ELSE framebuffer' = Resized(d) /\ UNCHANGED glUniforms

\* The media effect runs for file f: the cleanup of its previous run (if
\* that run got past its guard), then, with a context, the start of a load.
RunMediaEffect(f, gl) ==
  LET cleaned == \E i \in 1..Len(loads) : loads[i].live
  IN  /\ loads' = IF gl
                  THEN Append(Cleanup(loads), NewLoad(f, Closure(params, dimensions)))
                  ELSE Cleanup(loads)
      /\ glTextures' = IF cleaned THEN Deleted(glTextures, textureId) ELSE glTextures
      /\ textureId' = IF cleaned THEN 0 ELSE textureId
      /\ textureRef' = IF cleaned THEN NoTexture ELSE textureRef
      /\ decoded' = 0

\* The imageFile prop becomes f (the component mounts with its first file):
\* the WebGL effect and the media effect run.  The WebGL effect returns
\* early without a context or without compiled shaders, and calls
\* setGlVersion when it gets to its end.  A swap from a still to a clip is
\* not among the swaps tried.
SelectMedia(f) ==
  /\ host = "web"
  /\ swaps < MaxSwaps
  /\ f # imageFile
  /\ ~(imageFile.kind = "image" /\ f.kind = "video")
  /\ ~effectsPending
  /\ imageFile' = f
  /\ swaps' = swaps + 1
  /\ glRef' = (glRef \/ fault # "context")
  /\ programRef' = (programRef \/ fault \notin {"context", "shader"})
  /\ glVersionDue' = (glVersionDue \/ fault \notin {"context", "shader"})
  /\ RunMediaEffect(f, glRef \/ fault # "context")
  /\ UNCHANGED <<params, dimensions, renderRef, timeoutId, effectsPending, glUniforms,
                 media, framebuffer, revs>>
  /\ UNCHANGED <<host, fault, listening, created, canvasSize, uiMessage, downloadDue,
                 exported>>
  /\ UNCHANGED <<shaderVars, sideVars>>

\* The commit of setGlVersion: the media effect runs again for the same
\* file.
GlVersionCommit ==
  /\ host = "web"
  /\ glVersionDue
  /\ ~effectsPending
  /\ glVersionDue' = FALSE
  /\ RunMediaEffect(imageFile, glRef)
  /\ UNCHANGED <<params, dimensions, renderRef, timeoutId, effectsPending, glUniforms,
                 media, framebuffer, revs>>
  /\ UNCHANGED <<host, fault, imageFile, swaps, glRef, programRef, listening, created,
                 canvasSize, uiMessage, downloadDue, exported>>
  /\ UNCHANGED <<shaderVars, sideVars>>

\* gl.texImage2D(..., img) throws for file f: with the upload fault, the
\* still b.png is the one the context does not take.
Throws(f) == fault = "upload" /\ f.name = "b.png"

\* img.onload of load i: setupTexture, the upload of the image element,
\* textureRef.current set, an animation frame requested.  When the upload
\* throws, the catch deletes the new texture; textureRef.current keeps
\* what it held, which setupTexture has deleted.
ImgOnload(i) ==
  /\ host = "web"
  /\ loads[i].file.kind = "image" /\ loads[i].phase = "decoding" /\ loads[i].file.ok
  /\ created' = created + 1
  /\ IF Throws(loads[i].file)
     THEN /\ glTextures' = Deleted(setupTexture(glTextures), created + 1)
          /\ loads' = [loads EXCEPT ![i].phase = "failed"]
          /\ UNCHANGED <<textureId, textureRef>>
     ELSE /\ glTextures' = texImage2D(setupTexture(glTextures), created + 1, loads[i].file)
          /\ textureId' = created + 1
          /\ textureRef' = [bound |-> TRUE, data |-> Pixels(loads[i].file, 0), frame |-> 0]
          /\ loads' = [loads EXCEPT ![i].phase = "raf"]
  /\ UNCHANGED <<params, dimensions, renderRef, timeoutId, effectsPending, glUniforms,
                 media, decoded, framebuffer, revs>>
  /\ UNCHANGED <<host, fault, imageFile, swaps, glRef, programRef, glVersionDue,
                 listening, canvasSize, uiMessage, downloadDue, exported>>
  /\ UNCHANGED <<shaderVars, sideVars>>

\* The animation frame img.onload of load i requested:
\* fitCanvasToContainer with the scaled size, then render() of the closure
\* the effect was created with.
ImgFrame(i) ==
  /\ host = "web"
  /\ loads[i].phase = "raf"
  /\ LET d == fitCanvasToContainer(ScaledSize(loads[i].file.size))
     IN  /\ canvasSize' = d
         /\ dimensions' = d
         /\ FitThenRender(d, loads[i].render, textureRef)
  /\ effectsPending' = TRUE
  /\ loads' = [loads EXCEPT ![i].phase = "done"]
  /\ UNCHANGED <<params, renderRef, timeoutId, textureRef, media, decoded, revs>>
  /\ UNCHANGED <<host, fault, imageFile, swaps, glRef, programRef, glVersionDue,
                 listening, glTextures, created, textureId, uiMessage, downloadDue,
                 exported>>
  /\ UNCHANGED <<shaderVars, sideVars>>

\* img.onerror of load i: the file does not decode, or its object URL was
\* revoked before the fetch.  The handler logs to the console.
ImgOnerror(i) ==
  /\ host = "web"
  /\ loads[i].file.kind = "image" /\ loads[i].phase = "decoding"
  /\ ~loads[i].file.ok \/ ~loads[i].live
  /\ loads' = [loads EXCEPT ![i].phase = "failed"]
  /\ UNCHANGED hostVars
  /\ UNCHANGED <<host, fault, imageFile, swaps, glRef, programRef, glVersionDue,
                 listening, glTextures, created, textureId, canvasSize, uiMessage,
                 downloadDue, exported>>
  /\ UNCHANGED <<shaderVars, sideVars>>

\* The video element of the live load presents its next decoded frame.
VideoDecodes ==
  /\ host = "web"
  /\ \E i \in 1..Len(loads) :
       /\ loads[i].file.kind = "video" /\ loads[i].file.ok
       /\ loads[i].phase \in {"decoding", "playing"}
  /\ decoded < MaxFrames
  /\ decoded' = decoded + 1
  /\ UNCHANGED <<params, dimensions, renderRef, timeoutId, effectsPending, glUniforms,
                 textureRef, media, framebuffer, revs>>
  /\ UNCHANGED mediaVars
  /\ UNCHANGED <<shaderVars, sideVars>>

\* handleLoadedMetadata of load i: setupTexture, textureRef.current set,
\* fitCanvasToContainer with the video's own size, video.play(), and the
\* first pass of updateVideo.
LoadedMetadata(i) ==
  /\ host = "web"
  /\ loads[i].file.kind = "video" /\ loads[i].phase = "decoding" /\ loads[i].file.ok
  /\ LET f == loads[i].file
         h == created + 1
         d == fitCanvasToContainer(f.size)
         k == CurrentFrame(NoTexture, decoded)
         up == [bound |-> TRUE, data |-> Pixels(f, k), frame |-> k]
     IN  /\ created' = h
         /\ textureId' = h
         /\ canvasSize' = d
         /\ dimensions' = d
         /\ loads' = [loads EXCEPT ![i].phase = "playing", ![i].texture = h]
         /\ IF decoded > 0
            THEN /\ textureRef' = up
                 /\ glTextures' = texImage2D(setupTexture(glTextures), h, f)
                 /\ FitThenRender(d, renderRef, up)
            ELSE /\ textureRef' = [bound |-> TRUE, data |-> Solid(Black), frame |-> 0]
                 /\ glTextures' = setupTexture(glTextures)
                 /\ framebuffer' = Resized(d)
                 /\ UNCHANGED glUniforms
  /\ effectsPending' = TRUE
  /\ UNCHANGED <<params, renderRef, timeoutId, media, decoded, revs>>
  /\ UNCHANGED <<host, fault, imageFile, swaps, glRef, programRef, glVersionDue,
                 listening, uiMessage, downloadDue, exported>>
  /\ UNCHANGED <<shaderVars, sideVars>>

\* updateVideo of load i, called from requestAnimationFrame: with
\* readyState at least HAVE_CURRENT_DATA upload the element's frame into
\* the loop's texture and call renderRef.current.
UpdateVideo(i) ==
  /\ host = "web"
  /\ loads[i].phase = "playing"
  /\ IF decoded > 0
     THEN LET k == CurrentFrame(textureRef, decoded)
              up == [bound |-> TRUE, data |-> Pixels(loads[i].file, k), frame |-> k]
          IN  /\ textureRef' = up
              /\ glTextures' = texImage2D(glTextures, loads[i].texture, loads[i].file)
              /\ render(renderRef, up)
     ELSE UNCHANGED <<textureRef, glTextures, glUniforms, framebuffer>>
  /\ UNCHANGED <<params, dimensions, renderRef, timeoutId, effectsPending, media,
                 decoded, revs>>
  /\ UNCHANGED <<host, fault, imageFile, swaps, glRef, programRef, glVersionDue,
                 listening, loads, created, textureId, canvasSize, uiMessage,
                 downloadDue, exported>>
  /\ UNCHANGED <<shaderVars, sideVars>>

\* handleError of load i: the video element reports an error.  The handler
\* logs to the console.
VideoOnerror(i) ==
  /\ host = "web"
  /\ loads[i].file.kind = "video" /\ loads[i].phase = "decoding"
  /\ ~loads[i].file.ok
  /\ loads' = [loads EXCEPT ![i].phase = "failed"]
  /\ UNCHANGED hostVars
  /\ UNCHANGED <<host, fault, imageFile, swaps, glRef, programRef, glVersionDue,
                 listening, glTextures, created, textureId, canvasSize, uiMessage,
                 downloadDue, exported>>
  /\ UNCHANGED <<shaderVars, sideVars>>

\* handleDownload: with a canvas and a context, request an animation frame.
handleDownload ==
  /\ host = "web"
  /\ glRef
  /\ ~downloadDue
  /\ downloadDue' = TRUE
  /\ UNCHANGED hostVars
  /\ UNCHANGED <<host, fault, imageFile, swaps, glRef, programRef, glVersionDue,
                 listening, loads, glTextures, created, textureId, canvasSize,
                 uiMessage, exported>>
  /\ UNCHANGED <<shaderVars, sideVars>>

\* The animation frame of handleDownload: a 2D canvas of the canvas's size
\* takes a copy of the canvas and is encoded as PNG.
DownloadFrame ==
  /\ downloadDue
  /\ exported' = [made |-> TRUE, size |-> canvasSize, canvas |-> framebuffer]
  /\ downloadDue' = FALSE
  /\ UNCHANGED hostVars
  /\ UNCHANGED <<host, fault, imageFile, swaps, glRef, programRef, glVersionDue,
                 listening, loads, glTextures, created, textureId, canvasSize,
                 uiMessage>>
  /\ UNCHANGED <<shaderVars, sideVars>>

\* The plugin UI's init(): renderer.init() fails without a context or
\* without compiled shaders, and the UI then shows a message and installs
\* no message handler.
init ==
  /\ host = "figma"
  /\ ~listening
  /\ uiMessage = "none"
  /\ glRef' = (fault # "context")
  /\ programRef' = (fault \notin {"context", "shader"})
  /\ listening' = (fault \notin {"context", "shader"})
  /\ uiMessage' = IF fault \in {"context", "shader"} THEN "WebGL not supported" ELSE "none"
  /\ UNCHANGED hostVars
  /\ UNCHANGED <<host, fault, imageFile, swaps, glVersionDue, loads, glTextures,
                 created, textureId, canvasSize, downloadDue, exported>>
  /\ UNCHANGED <<shaderVars, sideVars>>

\* handleMessage with an image-data message for file f, up to its await:
\* loadImageFromBytes starts.
handleMessage(f) ==
  /\ host = "figma"
  /\ listening
  /\ swaps < MaxSwaps
  /\ f.kind = "image"
  /\ f # imageFile
  /\ imageFile' = f
  /\ swaps' = swaps + 1
  /\ loads' = Append(loads, NewLoad(f, NoClosure))
  /\ uiMessage' = "none"
  /\ UNCHANGED hostVars
  /\ UNCHANGED <<host, fault, glRef, programRef, glVersionDue, listening, glTextures,
                 created, textureId, canvasSize, downloadDue, exported>>
  /\ UNCHANGED <<shaderVars, sideVars>>

\* MIN_ZOOM, MAX_ZOOM and ZOOM_STEP of WebGLHalftoneProcessor and of ui.ts.
MIN_ZOOM(h) == IF h = "web" THEN F(25, 100) ELSE F(1, 10)
MAX_ZOOM(h) == IF h = "web" THEN 4 * One ELSE 5 * One
ZOOM_STEP(h) == IF h = "web" THEN F(25, 100) ELSE F(1, 10)

\* canvasContainer.clientWidth and clientHeight in the plugin window, which
\* code.ts sizes 1200 x 800.
UiContainer == <<900, 800>>

\* fitToView() before its clamps: the smaller of the two scales that fit
\* the canvas into the container less 40 pixels.
fitToViewUnclamped(canvas) ==
  Min(((UiContainer[1] - 40) * One) \div canvas[1],
      ((UiContainer[2] - 40) * One) \div canvas[2])

\* fitToView(): zoom = Math.min(scaleX, scaleY, MAX_ZOOM), then
\* Math.max(zoom, MIN_ZOOM).
fitToView(canvas) ==
  Max(Min(fitToViewUnclamped(canvas), MAX_ZOOM("figma")), MIN_ZOOM("figma"))

\* handleMessage after its await, the image of load i decoded:
\* renderer.setupTexture(img), which sizes the canvas to the image, then
\* render() with the settings read from the controls, then fitToView().
\* When the upload
\* throws, this.texture is the new, empty texture, isImageLoaded and the
\* canvas keep what they had, and the catch of handleMessage shows the
\* error.  The bound field of textureRef stands for isImageLoaded.
LoadResolved(i) ==
  /\ host = "figma"
  /\ loads[i].phase = "decoding" /\ loads[i].file.ok
  /\ created' = created + 1
  /\ textureId' = created + 1
  /\ LET f == loads[i].file
         up == [bound |-> TRUE, data |-> Pixels(f, 0), frame |-> 0]
     IN  IF Throws(f)
         THEN /\ glTextures' = setupTexture(glTextures)
              /\ textureRef' = [textureRef EXCEPT !.data = Solid(Black)]
              /\ uiMessage' = "Error loading image"
              /\ loads' = [loads EXCEPT ![i].phase = "failed"]
              /\ UNCHANGED <<canvasSize, glUniforms, framebuffer, zoom>>
         ELSE /\ glTextures' = texImage2D(setupTexture(glTextures), created + 1, f)
              /\ textureRef' = up
              /\ canvasSize' = f.size
              /\ render(Closure(params, f.size), up)
              /\ loads' = [loads EXCEPT ![i].phase = "done"]
              /\ zoom' = fitToView(f.size)
              /\ UNCHANGED uiMessage
  /\ UNCHANGED <<params, dimensions, renderRef, timeoutId, effectsPending, media,
                 decoded, revs>>
  /\ UNCHANGED <<host, fault, imageFile, swaps, glRef, programRef, glVersionDue,
                 listening, downloadDue, exported>>
  /\ UNCHANGED <<shaderVars, pluginVars, recordVars>>

\* handleMessage after its await, the promise of load i rejected: the UI
\* shows the error in place of the canvas.
LoadRejected(i) ==
  /\ host = "figma"
  /\ loads[i].phase = "decoding" /\ ~loads[i].file.ok
  /\ loads' = [loads EXCEPT ![i].phase = "failed"]
  /\ uiMessage' = "Error loading image"
  /\ UNCHANGED hostVars
  /\ UNCHANGED <<host, fault, imageFile, swaps, glRef, programRef, glVersionDue,
                 listening, glTextures, created, textureId, canvasSize, downloadDue,
                 exported>>
  /\ UNCHANGED <<shaderVars, sideVars>>

\* applyHalftone: with an image loaded, render(), then the canvas encoded
\* as PNG.
applyHalftone ==
  /\ host = "figma"
  /\ textureRef.bound
  /\ render(Closure(params, canvasSize), textureRef)
  /\ exported' = [made |-> TRUE, size |-> canvasSize, canvas |-> framebuffer']
  /\ UNCHANGED <<params, dimensions, renderRef, timeoutId, effectsPending, textureRef,
                 media, decoded, revs>>
  /\ UNCHANGED <<host, fault, imageFile, swaps, glRef, programRef, glVersionDue,
                 listening, loads, glTextures, created, textureId, canvasSize,
                 uiMessage, downloadDue>>
  /\ UNCHANGED <<shaderVars, sideVars>>

\* The input listener setupControls installs on a control, here the fuzz
\* slider: the control holds its new value, then onRender(), which is
\* render() of the UI: with an image loaded, renderer.render(getSettings()),
\* the settings read from every control at that moment.
ControlInput ==
  /\ host = "figma"
  /\ listening
  /\ \E z \in {F(1, 10), F(3, 10)} :
       /\ z # params.fuzz
       /\ params' = [params EXCEPT !.fuzz = z]
  /\ IF textureRef.bound
     THEN render(Closure(params', canvasSize), textureRef)
     ELSE UNCHANGED <<glUniforms, framebuffer>>
  /\ UNCHANGED <<dimensions, renderRef, timeoutId, effectsPending, textureRef, media,
                 decoded, revs>>
  /\ UNCHANGED mediaVars
  /\ UNCHANGED <<shaderVars, sideVars>>

\* Before the first file: no context yet, either host, and whatever the
\* browser refuses.
InitMedia ==
  /\ HostInit
  /\ ShaderIdle
  /\ SideIdle
  /\ host \in {"web", "figma"}
  /\ fault \in {"none", "context", "shader", "upload"}
  /\ imageFile = NoFile
  /\ swaps = 0
  /\ glRef = FALSE
  /\ programRef = FALSE
  /\ glVersionDue = FALSE
  /\ listening = FALSE
  /\ loads = <<>>
  /\ glTextures = {}
  /\ created = 0
  /\ textureId = 0
  /\ canvasSize = DefaultCanvasSize
  /\ uiMessage = "none"
  /\ downloadDue = FALSE
  /\ exported = NoExport

MediaNext ==
  \/ \E f \in MediaFiles : SelectMedia(f)
  \/ GlVersionCommit
  \/ \E i \in 1..Len(loads) : ImgOnload(i)
  \/ \E i \in 1..Len(loads) : ImgFrame(i)
  \/ \E i \in 1..Len(loads) : ImgOnerror(i)
  \/ VideoDecodes
  \/ \E i \in 1..Len(loads) : LoadedMetadata(i)
  \/ \E i \in 1..Len(loads) : UpdateVideo(i)
  \/ \E i \in 1..Len(loads) : VideoOnerror(i)
  \/ RunEffects
  \/ TimeoutFires
  \/ handleDownload
  \/ DownloadFrame
  \/ init
  \/ \E f \in MediaFiles : handleMessage(f)
  \/ \E i \in 1..Len(loads) : LoadResolved(i)
  \/ \E i \in 1..Len(loads) : LoadRejected(i)
  \/ applyHalftone
  \/ ControlInput

SpecMedia == InitMedia /\ [][MediaNext]_vars

------------------------------------------------------------------------
\* The plugin's main thread: code.ts.

\* The lifecycle of host h at rest with file f as the imageFile prop.
MediaAt(h, f, n) ==
  /\ host = h
  /\ fault = "none"
  /\ imageFile = f
  /\ swaps = n
  /\ glRef = TRUE
  /\ programRef = TRUE
  /\ glVersionDue = FALSE
  /\ listening = (h = "figma")
  /\ loads = <<>>
  /\ glTextures = {}
  /\ created = 0
  /\ textureId = 0
  /\ canvasSize = DefaultCanvasSize
  /\ uiMessage = "none"
  /\ downloadDue = FALSE
  /\ exported = NoExport

\* How many sendSelectedImage calls the user's selection changes start, and
\* how many times the user presses Apply.
MaxCalls == 2
MaxApplies == 1

\* What the user can select: nothing, one node of the page, two nodes.
Selections ==
  {<<>>, <<"A", "B">>} \cup {<<n>> : n \in {m \in NodeIds : nodes[m] # "absent"}}

\* getImageFill(node): an IMAGE fill, if the node has fills and one of them
\* is an image.
getImageFill(page, node) == IF node = "G" THEN "none" ELSE page[node]

\* sendSelectedImage with the error reply for a node without an image left
\* out.
sendSelectedImageNoImageSilent(sel, cause, page) ==
  LET k == Len(calls) + 1
      ended(n) == Append(calls, [cause |-> cause, node |-> n, image |-> "none",
                                 phase |-> "done"])
      post(t, n) == Append(toUi, [type |-> t, node |-> n, image |-> "none", call |-> k])
  IN  IF Len(sel) = 0
      THEN /\ toUi' = post("no-selection", "none")
           /\ calls' = ended("none")
           /\ UNCHANGED selectedNodeId
      ELSE IF Len(sel) > 1
      THEN /\ toUi' = post("error", "none")
           /\ calls' = ended("none")
           /\ UNCHANGED selectedNodeId
      ELSE LET node == sel[1]
           IN  /\ selectedNodeId' = node
               /\ IF getImageFill(page, node) = "none"
                  THEN /\ calls' = ended(node)
                       /\ UNCHANGED toUi
                  ELSE /\ calls' = Append(calls, [cause |-> cause, node |-> node,
                                                  image |-> getImageFill(page, node),
                                                  phase |-> "bytes"])
                       /\ UNCHANGED toUi

\* sendSelectedImage up to the await of getBytesAsync, for the selection
\* sel on the page as it is: no-selection for an empty selection, error
\* for several nodes; for one node selectedNodeId is set, and an error is
\* posted when getImageFromNode finds no image fill.
sendSelectedImage(sel, cause, page) ==
  LET k == Len(calls) + 1
      ended(n) == Append(calls, [cause |-> cause, node |-> n, image |-> "none",
                                 phase |-> "done"])
      post(t, n) == Append(toUi, [type |-> t, node |-> n, image |-> "none", call |-> k])
  IN  IF Len(sel) = 0
      THEN /\ toUi' = post("no-selection", "none")
           /\ calls' = ended("none")
           /\ UNCHANGED selectedNodeId
      ELSE IF Len(sel) > 1
      THEN /\ toUi' = post("error", "none")
           /\ calls' = ended("none")
           /\ UNCHANGED selectedNodeId
      ELSE LET node == sel[1]
           IN  /\ selectedNodeId' = node
               /\ IF getImageFill(page, node) = "none"
                  THEN /\ toUi' = post("error", node)
                       /\ calls' = ended(node)
                  ELSE /\ calls' = Append(calls, [cause |-> cause, node |-> node,
                                                  image |-> getImageFill(page, node),
                                                  phase |-> "bytes"])
                       /\ UNCHANGED toUi

\* The user changes the selection; the selectionchange handler calls
\* sendSelectedImage.
SelectionChange(sel) ==
  /\ Len(calls) < MaxCalls
  /\ sel # selection
  /\ selection' = sel
  /\ sendSelectedImage(sel, "selectionchange", nodes)
  /\ UNCHANGED <<nodes, uiRead, uiNode, toMain, applies, outcomes>>
  /\ UNCHANGED <<shaderVars, hostVars, mediaVars, recordVars, zoom>>

\* figma.ui.onmessage with a get-selection message.
OnGetSelection ==
  /\ toMain # <<>>
  /\ Head(toMain).type = "get-selection"
  /\ toMain' = Tail(toMain)
  /\ sendSelectedImage(selection, "get-selection", nodes)
  /\ UNCHANGED <<selection, nodes, uiRead, uiNode, applies, outcomes>>
  /\ UNCHANGED <<shaderVars, hostVars, mediaVars, recordVars, zoom>>

\* sendSelectedImage after its await: getBytesAsync and getSizeAsync of
\* call k have resolved and image-data is posted, or one of them rejected
\* and the catch posts an error.
GetImageSettled(k) ==
  /\ calls[k].phase = "bytes"
  /\ \E resolved \in BOOLEAN :
       toUi' = Append(toUi, [type |-> IF resolved THEN "image-data" ELSE "error",
                             node |-> calls[k].node,
                             image |-> IF resolved THEN calls[k].image ELSE "none",
                             call |-> k])
  /\ calls' = [calls EXCEPT ![k].phase = "done"]
  /\ UNCHANGED <<selection, nodes, selectedNodeId, uiRead, uiNode, toMain, applies,
                 outcomes>>
  /\ UNCHANGED <<shaderVars, hostVars, mediaVars, recordVars, zoom>>

\* window.onmessage of the UI with the next message of the main thread: an
\* image-data message replaces the image the renderer holds, the other two
\* show a text and leave the renderer as it is.
ReceiveMessage ==
  /\ uiRead < Len(toUi)
  /\ uiRead' = uiRead + 1
  /\ uiNode' = IF toUi[uiRead + 1].type = "image-data" THEN toUi[uiRead + 1].node
               ELSE uiNode
  /\ UNCHANGED <<selection, nodes, selectedNodeId, calls, toUi, toMain, applies,
                 outcomes>>
  /\ UNCHANGED <<shaderVars, hostVars, mediaVars, recordVars, zoom>>

\* applyHalftone of the UI, its message: with an image loaded, the rendered
\* canvas is posted as apply-halftone, with the image's size and no node id.
PostApplyHalftone ==
  /\ uiNode # "none"
  /\ applies < MaxApplies
  /\ applies' = applies + 1
  /\ toMain' = Append(toMain, [type |-> "apply-halftone", of |-> uiNode])
  /\ UNCHANGED <<selection, nodes, selectedNodeId, calls, toUi, uiRead, uiNode,
                 outcomes>>
  /\ UNCHANGED <<shaderVars, hostVars, mediaVars, recordVars, zoom>>

\* The id of the rectangle figma.createRectangle() returns.
NewRectangle == IF nodes["R1"] = "absent" THEN "R1" ELSE "R2"

\* figma.ui.onmessage with an apply-halftone message.  createImage throws
\* or not.  The node is looked up by selectedNodeId: with a fills property
\* and an IMAGE fill, that fill is replaced and a notification shown; with
\* a fills property and no IMAGE fill nothing is done; without a node or
\* without fills a rectangle is created and selected, which calls the
\* selectionchange handler.
OnApplyHalftone ==
  /\ toMain # <<>>
  /\ Head(toMain).type = "apply-halftone"
  /\ toMain' = Tail(toMain)
  /\ LET of == Head(toMain).of
         node == selectedNodeId
         did(target, kind, note) ==
           Append(outcomes, [of |-> of, target |-> target, kind |-> kind,
                             notify |-> note])
     IN  \E imageMade \in BOOLEAN :
           IF ~imageMade
           THEN /\ outcomes' = did("none", "error", "Error applying image")
                /\ UNCHANGED <<selection, nodes, selectedNodeId, calls, toUi>>
           ELSE IF node # "null" /\ nodes[node] # "absent" /\ node # "G"
           THEN IF nodes[node] # "none"
                THEN /\ nodes' = [nodes EXCEPT ![node] = "halftone"]
                     /\ outcomes' = did(node, "replaced", "Halftone effect applied!")
                     /\ UNCHANGED <<selection, selectedNodeId, calls, toUi>>
                ELSE /\ outcomes' = did("none", "none", "none")
                     /\ UNCHANGED <<selection, nodes, selectedNodeId, calls, toUi>>
           ELSE /\ nodes' = [nodes EXCEPT ![NewRectangle] = "halftone"]
                /\ selection' = <<NewRectangle>>
                /\ sendSelectedImage(<<NewRectangle>>, "selectionchange", nodes')
                /\ outcomes' = did(NewRectangle, "created", "Halftone image created!")
  /\ UNCHANGED <<uiRead, uiNode, applies>>
  /\ UNCHANGED <<shaderVars, hostVars, mediaVars, recordVars, zoom>>

\* The plugin started on a page with some selection: the UI's init() has
\* installed its message handler and posted get-selection.
InitPlugin ==
  /\ HostInit
  /\ ShaderIdle
  /\ MediaAt("figma", NoFile, 0)
  /\ selection \in {<<>>, <<"A">>, <<"S">>, <<"A", "B">>}
  /\ nodes = Page
  /\ selectedNodeId = "null"
  /\ calls = <<>>
  /\ toUi = <<>>
  /\ uiRead = 0
  /\ uiNode = "none"
  /\ toMain = <<[type |-> "get-selection", of |-> "none"]>>
  /\ applies = 0
  /\ outcomes = <<>>
  /\ RecordIdle
  /\ zoom = One

PluginNext ==
  \/ \E sel \in Selections : SelectionChange(sel)
  \/ OnGetSelection
  \/ \E k \in 1..Len(calls) : GetImageSettled(k)
  \/ ReceiveMessage
  \/ PostApplyHalftone
  \/ OnApplyHalftone

SpecPlugin == InitPlugin /\ [][PluginNext]_vars

------------------------------------------------------------------------
\* Recording: startRecording, stopRecording and the cleanup on a file change.

\* How many MediaRecorders are created.
MaxRecorders == 2

\* if (state !== "inactive") stop(), on recorder i of rs.
Stopped(rs, i) ==
  IF rs[i].state = "recording" THEN [rs EXCEPT ![i].state = "inactive"] ELSE rs

\* stopRecording that leaves mediaRecorderRef.current as it is.
stopRecordingKeepsRef ==
  /\ isRecording
  /\ IF mediaRecorderRef # 0
     THEN /\ recorders' = Stopped(recorders, mediaRecorderRef)
          /\ isRecording' = FALSE
          /\ UNCHANGED mediaRecorderRef
     ELSE UNCHANGED recordVars
  /\ UNCHANGED <<shaderVars, hostVars, mediaVars, pluginVars, zoom>>

\* startRecording, the button shown while isRecording is false: nothing for
\* an image; for a video a MediaRecorder on the canvas stream is started,
\* stored in mediaRecorderRef, and isRecording is set.  When the
\* constructor or start() throws, the catch logs and nothing is stored.
startRecording ==
  /\ ~isRecording
  /\ Len(recorders) < MaxRecorders
  /\ imageFile.kind = "video"
  /\ \E started \in BOOLEAN :
       IF started
       THEN /\ recorders' = Append(recorders, [state |-> "recording", saved |-> FALSE])
            /\ mediaRecorderRef' = Len(recorders) + 1
            /\ isRecording' = TRUE
       ELSE UNCHANGED recordVars
  /\ UNCHANGED <<shaderVars, hostVars, mediaVars, pluginVars, zoom>>

\* stopRecording, the button shown while isRecording is true: without a
\* recorder nothing; otherwise stop() unless the recorder is inactive,
\* mediaRecorderRef.current = null and setIsRecording(false).
stopRecording ==
  /\ isRecording
  /\ IF mediaRecorderRef # 0
     THEN /\ recorders' = Stopped(recorders, mediaRecorderRef)
          /\ mediaRecorderRef' = 0
          /\ isRecording' = FALSE
     ELSE UNCHANGED recordVars
  /\ UNCHANGED <<shaderVars, hostVars, mediaVars, pluginVars, zoom>>

\* The imageFile prop changes to f: the cleanup of the recording effect
\* stops the recorder mediaRecorderRef names unless it is inactive.
RecordingCleanup(f) ==
  /\ swaps < MaxSwaps
  /\ f # imageFile
  /\ imageFile' = f
  /\ swaps' = swaps + 1
  /\ recorders' = IF mediaRecorderRef # 0 THEN Stopped(recorders, mediaRecorderRef)
                  ELSE recorders
  /\ UNCHANGED <<isRecording, mediaRecorderRef>>
  /\ UNCHANGED <<host, fault, glRef, programRef, glVersionDue, listening, loads,
                 glTextures, created, textureId, canvasSize, uiMessage, downloadDue,
                 exported>>
  /\ UNCHANGED <<shaderVars, hostVars, pluginVars, zoom>>

\* mediaRecorder.onstop of recorder i, after its stop(): the chunks are
\* saved as a file.
RecorderOnstop(i) ==
  /\ recorders[i].state = "inactive"
  /\ ~recorders[i].saved
  /\ recorders' = [recorders EXCEPT ![i].saved = TRUE]
  /\ UNCHANGED <<isRecording, mediaRecorderRef>>
  /\ UNCHANGED <<shaderVars, hostVars, mediaVars, pluginVars, zoom>>

\* The component mounted with a file.
InitRecord ==
  /\ HostInit
  /\ ShaderIdle
  /\ \E f \in MediaFiles : MediaAt("web", f, 0)
  /\ SideIdle

RecordNext ==
  \/ startRecording
  \/ stopRecording
  \/ \E f \in MediaFiles : RecordingCleanup(f)
  \/ \E i \in 1..Len(recorders) : RecorderOnstop(i)

SpecRecord == InitRecord /\ [][RecordNext]_vars

------------------------------------------------------------------------
\* Zoom of the viewer: the web component's zoom state and the plugin UI's
\* zoom variable.

\* WHEEL_ZOOM_STEP of the web component's wheel handler.
WHEEL_ZOOM_STEP == F(2, 100)

\* The images sent to the plugin UI: a.png, an icon and a poster.
ZoomFiles ==
  {[name |-> "a.png", kind |-> "image", ok |-> TRUE, size |-> <<1200, 800>>],
   [name |-> "icon.png", kind |-> "image", ok |-> TRUE, size |-> <<16, 16>>],
   [name |-> "poster.png", kind |-> "image", ok |-> TRUE, size |-> <<12000, 9000>>]}

\* distance / lastTouchDistance of a pinch move: fingers closing, opening,
\* meeting in one point, and opening from almost one point.
PinchScales == {F(1, 2), 2 * One, 0, 100 * One}

\* e.deltaY of a wheel event with ctrlKey on the plugin's canvas container.
WheelDeltas == {0 - 100, 100, 300}

\* handleZoomIn without Math.min.
handleZoomInUnclamped ==
  /\ host = "web"
  /\ zoom' = zoom + ZOOM_STEP("web")
  /\ UNCHANGED <<shaderVars, hostVars, mediaVars, pluginVars, recordVars>>

\* handleZoomIn: setZoom(z => Math.min(z + ZOOM_STEP, MAX_ZOOM)).
handleZoomIn ==
  /\ host = "web"
  /\ zoom' = Min(zoom + ZOOM_STEP("web"), MAX_ZOOM("web"))
  /\ UNCHANGED <<shaderVars, hostVars, mediaVars, pluginVars, recordVars>>

\* handleZoomOut: setZoom(z => Math.max(z - ZOOM_STEP, MIN_ZOOM)).
handleZoomOut ==
  /\ host = "web"
  /\ zoom' = Max(zoom - ZOOM_STEP("web"), MIN_ZOOM("web"))
  /\ UNCHANGED <<shaderVars, hostVars, mediaVars, pluginVars, recordVars>>

\* handleFitToView: setZoom(1.0).
handleFitToView ==
  /\ host = "web"
  /\ zoom' = One
  /\ UNCHANGED <<shaderVars, hostVars, mediaVars, pluginVars, recordVars>>

\* The wheel handler with ctrlKey or metaKey: one WHEEL_ZOOM_STEP down for
\* deltaY > 0, up otherwise, clamped.
handleWheel(deltaY) ==
  /\ host = "web"
  /\ LET delta == IF deltaY > 0 THEN 0 - WHEEL_ZOOM_STEP ELSE WHEEL_ZOOM_STEP
     IN  zoom' = Max(MIN_ZOOM("web"), Min(MAX_ZOOM("web"), zoom + delta))
  /\ UNCHANGED <<shaderVars, hostVars, mediaVars, pluginVars, recordVars>>

\* handleTouchMove with two touches and a scale more than 0.01 from 1:
\* setZoom(z => Math.max(MIN_ZOOM, Math.min(MAX_ZOOM, z * scale))).
handleTouchMove(scale) ==
  /\ host = "web"
  /\ Abs(scale - One) > F(1, 100)
  /\ zoom' = Max(MIN_ZOOM("web"), Min(MAX_ZOOM("web"), FMul(zoom, scale)))
  /\ UNCHANGED <<shaderVars, hostVars, mediaVars, pluginVars, recordVars>>

\* zoomIn of the plugin UI.
zoomIn ==
  /\ host = "figma"
  /\ listening
  /\ zoom' = Min(MAX_ZOOM("figma"), zoom + ZOOM_STEP("figma"))
  /\ UNCHANGED <<shaderVars, hostVars, mediaVars, pluginVars, recordVars>>

\* zoomOut of the plugin UI.
zoomOut ==
  /\ host = "figma"
  /\ listening
  /\ zoom' = Max(MIN_ZOOM("figma"), zoom - ZOOM_STEP("figma"))
  /\ UNCHANGED <<shaderVars, hostVars, mediaVars, pluginVars, recordVars>>

\* The fit button of the plugin UI: fitToView(), which returns at once
\* without an image.
zoomFit ==
  /\ host = "figma"
  /\ listening
  /\ zoom' = IF textureRef.bound THEN fitToView(canvasSize) ELSE zoom
  /\ UNCHANGED <<shaderVars, hostVars, mediaVars, pluginVars, recordVars>>

\* The plugin UI's wheel handler with ctrlKey or metaKey:
\* zoom = zoom * (1 - deltaY * 0.01), clamped.
wheel(deltaY) ==
  /\ host = "figma"
  /\ listening
  /\ LET delta == (0 - deltaY) * F(1, 100)
     IN  zoom' = Max(MIN_ZOOM("figma"), Min(MAX_ZOOM("figma"), FMul(zoom, One + delta)))
  /\ UNCHANGED <<shaderVars, hostVars, mediaVars, pluginVars, recordVars>>

\* Either host before its first file, on a browser that refuses nothing.
InitZoom == InitMedia /\ fault = "none"

ZoomNext ==
  \/ handleZoomIn
  \/ handleZoomOut
  \/ handleFitToView
  \/ \E deltaY \in {0 - 1, 1} : handleWheel(deltaY)
  \/ \E scale \in PinchScales : handleTouchMove(scale)
  \/ init
  \/ \E f \in ZoomFiles : handleMessage(f)
  \/ \E i \in 1..Len(loads) : LoadResolved(i)
  \/ zoomIn
  \/ zoomOut
  \/ zoomFit
  \/ \E deltaY \in WheelDeltas : wheel(deltaY)

SpecZoom == InitZoom /\ [][ZoomNext]_vars

------------------------------------------------------------------------
\* Properties of the dot stage.

\* The tone that drives channel ch at the fragment.
Tone(ch) == cmyk[ch][ChannelIndex(ch)]

AfterDots == pc \in {"ink", "final", "done"}

\* Tones tried directly on halftoneChannel, besides those of the textures.
Tones == {0, F(1, 1000), F(3, 100), F(3, 10), F(49, 100), F(1, 2), One}

\* C1: for every ink channel and every fragment, a tone strictly below
\* u_threshold gives a dot coverage of exactly 0: the coverage main() ends
\* up with, and the value halftoneChannel returns for any tone below it.
C1_ThresholdCutoff ==
  AfterDots =>
    \A ch \in ChannelSet :
      /\ Tone(ch) < U.threshold => cov[ch] = 0
      /\ layer = 1 =>
           \A v \in Tones :
             v < U.threshold =>
               halftoneChannel(U, fx, fx.st, v, U.angle[ch], U.roughness, U.fuzz,
                               PaperNoiseValue(fx)) = 0

\* C1 witness: a visible channel whose tone is above the floor of main()
\* and below the threshold, at a fragment the dot edge would cover.
C1_Witness ==
  /\ AfterDots
  /\ \E ch \in ChannelSet :
       /\ U.show[ch]
       /\ Tone(ch) > ToneFloor(fx, ch)
       /\ Tone(ch) < U.threshold
       /\ DotEdge(U, fx, fx.st, Tone(ch), U.angle[ch], U.roughness, U.fuzz,
                  PaperNoiseValue(fx)) > 0
       /\ cov[ch] = 0

\* C5: for any tone, radius and fuzz >= 0 the dot coverage of a channel is
\* never negative and never above 1.
C5_CoverageInUnitRange ==
  \A ch \in ChannelSet : 0 <= cov[ch] /\ cov[ch] <= One

\* The builds on which the dot edge never evaluates smoothstep with equal
\* edges: the rotated-grid shader, any build with derivatives, any fuzz > 0.
EdgesApart == fx.variant = "rotgrid" \/ fx.derivatives \/ U.fuzz > 0

\* Where C5 does hold: outside the classic shader without derivatives at
\* fuzz = 0, whatever the build returns for undefined results.
C5_InRangeWhenEdgesApart ==
  (AfterDots /\ EdgesApart) => C5_CoverageInUnitRange

\* The fragment at which the coverage is not a number.
C5_NaNCoverage ==
  /\ AfterDots
  /\ \E ch \in ChannelSet : cov[ch] = NaN /\ U.fuzz = 0 /\ Tone(ch) >= U.threshold

\* baseRadius of halftoneChannel: the radius of the channel's dot, before
\* the distance to the cell centre is taken off it.
BaseRadius(ch) ==
  LET intensity == Clamp(Tone(ch), 0, One)
  IN  FMul(FMul(intensity, intensity), U.dotSize)
      + (IF intensity > F(1, 10)
         THEN FMul(FMul(U.roughness, PaperNoiseValue(fx)), intensity)
         ELSE 0)

\* radius of halftoneChannel at the fragment: baseRadius - dist.
RadiusAt(ch) ==
  DotRadius(U, fx.st, Tone(ch), U.angle[ch], U.roughness, PaperNoiseValue(fx))

\* C24: whenever the dot radius computed for a channel is negative, the
\* coverage of that channel is zero.
C24_NegativeRadiusNoCoverage ==
  AfterDots =>
    \A ch \in ChannelSet : BaseRadius(ch) < 0 => cov[ch] = 0

\* The builds whose soft edge has a width the uniforms bound: the
\* rotated-grid shader (aaWidth <= 0.1), and the classic shader without
\* derivatives at a fuzz above 0 (no anti-aliasing band at all).
EdgeWidthBounded ==
  fx.variant = "rotgrid" \/ (~fx.derivatives /\ U.fuzz > 0)

\* C24 as the dot edge has it: the coverage is zero once the fragment lies
\* more than the soft edge outside the dot, radius <= -fuzz - 0.1 (the widest
\* anti-aliasing band), whatever the sign of the dot's own radius.
C24_ZeroBeyondSoftEdge ==
  (AfterDots /\ EdgeWidthBounded) =>
    \A ch \in ChannelSet :
      RadiusAt(ch) <= 0 - U.fuzz - F(1, 10) => cov[ch] = 0

\* C24 witness: in the rotated-grid shader, a dot of negative radius that
\* still leaves ink inside its cell.
C24_InkFromNegativeRadius ==
  /\ AfterDots
  /\ fx.variant = "rotgrid"
  /\ \E ch \in ChannelSet :
       BaseRadius(ch) < 0 /\ RadiusAt(ch) < 0 /\ cov[ch] > 0 /\ cov[ch] <= One

\* The conversion as the text states it, for an rgb in [0, 1].
CmykAsStated(rgb) ==
  LET k == One - Max(rgb[1], Max(rgb[2], rgb[3]))
      part(x) == IF k < One THEN ((One - x - k) * One) \div (One - k) ELSE 0
  IN  <<part(rgb[1]), part(rgb[2]), part(rgb[3]), k>>

InUnit(x) == 0 <= x /\ x <= One

\* The colour each channel's cmyk was converted from is texcolor when the
\* source is one solid colour, and always in the classic shader.
ConvertedFromTexcolor == fx.variant = "classic" \/ tex.left = tex.right

\* C6: rgbToCmyk returns k = 1 - max(r, g, b), c, m, y = (1 - x - k) / (1 - k)
\* when k < 1 and 0 otherwise, every component within [0, 1]; white gives
\* all zero, black gives k = 1 and c = m = y = 0, red gives c = 0, m = y = 1,
\* k = 0.
C6_RgbToCmyk ==
  (pc # "bind" /\ pc # "sample") =>
    \A ch \in ChannelSet :
      /\ \A i \in 1..4 : InUnit(cmyk[ch][i])
      /\ ConvertedFromTexcolor => cmyk[ch] = CmykAsStated(texcolor)
      /\ (ConvertedFromTexcolor /\ texcolor = White) => cmyk[ch] = <<0, 0, 0, 0>>
      /\ (ConvertedFromTexcolor /\ texcolor = Black) => cmyk[ch] = <<0, 0, 0, One>>
      /\ (ConvertedFromTexcolor /\ texcolor = Red) => cmyk[ch] = <<0, One, One, 0>>

\* C6 witness: a conversion of a colour with all four components non-zero
\* has been made, and white, black and red are among the inputs.
C6_Witness ==
  /\ pc = "dots"
  /\ ConvertedFromTexcolor
  /\ texcolor = Teal
  /\ \A i \in 1..4 : cmyk["C"][i] > 0 \/ i = 2

\* The dots of a solid mid-gray source under the default parameters.
GrayAtDefaults == AfterDots /\ tex = Solid(Gray) /\ settings = DEFAULTS

\* The coverage halftoneChannel gives the fragment for tone v on the grid
\* at the given angle.
DotsAtAngle(v, angle) ==
  halftoneChannel(U, fx, fx.st, v, angle, U.roughness, U.fuzz, PaperNoiseValue(fx))

\* C16: for a solid mid-gray (0.5, 0.5, 0.5) image with the default
\* parameters (frequency 85, threshold 0.05) the cyan, magenta and yellow
\* tones are 0 and their coverage is 0 at every fragment; the black tone is
\* 0.5 and the black coverage is that of the dots on the grid rotated by
\* 45 degrees.
C16_GrayIsBlackDotsOnly ==
  GrayAtDefaults =>
    /\ U.frequency = 85 /\ U.threshold = F(5, 100)
    /\ \A ch \in {"C", "M", "Y"} : Tone(ch) = 0 /\ cov[ch] = 0
    /\ Tone("K") = F(1, 2)
    /\ cov["K"] = DotsAtAngle(F(1, 2), 45)

\* C16 witness: a fragment of the gray image inside a black dot, whose
\* coverage differs from that of the unrotated grid.
C16_Witness ==
  /\ GrayAtDefaults
  /\ cov["K"] > 0
  /\ cov["K"] # DotsAtAngle(F(1, 2), 0)
  /\ \A ch \in {"C", "M", "Y"} : U.show[ch] /\ cov[ch] = 0

------------------------------------------------------------------------
\* Properties of the compositing stage.

\* Channel ch is composited: visible, with positive coverage.
Applied(ch) == U.show[ch] /\ cov[ch] > 0

InkOf(ch) == <<U.ink[ch][1], U.ink[ch][2], U.ink[ch][3]>>

\* C2: the ink layers are composited onto the paper in the fixed order
\* cyan, magenta, yellow, black, whatever the parameters and blend mode:
\* the layers applied so far are in that order, and after the last layer
\* the composite is black over yellow over magenta over cyan over paper.
C2_FixedInkOrder ==
  /\ \A i \in 1..Len(inked) : \A j \in 1..Len(inked) :
       i < j => ChannelIndex(inked[i]) < ChannelIndex(inked[j])
  /\ pc = "ink" => \A i \in 1..Len(inked) : ChannelIndex(inked[i]) < layer
  /\ pc = "final" =>
       /\ inked = SelectSeq(<<"C", "M", "Y", "K">>, Applied)
       /\ rgbscreen =
            ApplyInk(U, "K", cov["K"], InkAmount(U, fx),
              ApplyInk(U, "Y", cov["Y"], InkAmount(U, fx),
                ApplyInk(U, "M", cov["M"], InkAmount(U, fx),
                  ApplyInk(U, "C", cov["C"], InkAmount(U, fx), Paper(U, fx)))))

\* C2 witness: magenta and a later layer are both applied in Normal mode,
\* where the layer applied last shows on top.
C2_Witness ==
  /\ pc = "final"
  /\ U.blendMode = 2
  /\ Len(inked) >= 3
  /\ Applied("M") /\ Applied("K")

\* Snapshots that differ from p only in channel ch's ink colour, ink alpha
\* or screen angle: each changed alone, and all three changed.
OtherInk(p, ch) ==
  LET hex == <<255, 0, 0>>
      a == F(1, 2)
      ang == IF p.angle[ch] = 45 THEN 0 - 15 ELSE 45
  IN  {[p EXCEPT !.inkHex[ch] = hex], [p EXCEPT !.inkAlpha[ch] = a],
       [p EXCEPT !.angle[ch] = ang],
       [p EXCEPT !.inkHex[ch] = hex, !.inkAlpha[ch] = a, !.angle[ch] = ang]}

\* C3: with a channel's visibility off, the output is the same for every
\* ink colour, ink alpha and screen angle of that channel, whatever its
\* coverage would be.
C3_HiddenChannelInert ==
  pc = "done" =>
    \A ch \in ChannelSet :
      ~settings.show[ch] =>
        /\ cov[ch] = 0
        /\ \A q \in OtherInk(settings, ch) :
             main(Uniforms(q, fx.dims), tex, fx) = fragColor

\* C3 witness: a hidden channel whose dot would cover the fragment, while
\* another channel is inked there.
C3_Witness ==
  /\ pc = "done"
  /\ inked # <<>>
  /\ MoireBlend(U, fx) = 0
  /\ \E ch \in ChannelSet :
       /\ ~settings.show[ch]
       /\ Tone(ch) >= U.threshold
       /\ DotEdge(U, fx, fx.st, Tone(ch), U.angle[ch], U.roughness, U.fuzz,
                  PaperNoiseValue(fx)) > 0

\* Exactly one channel is composited, at coverage 1.0 and ink alpha 1.0.
SingleFullChannel(ch) ==
  /\ pc = "final"
  /\ inked = <<ch>>
  /\ cov[ch] = One
  /\ U.ink[ch][4] = One

Times3(a, b) == <<FMul(a[1], b[1]), FMul(a[2], b[2]), FMul(a[3], b[3])>>

\* C4 as stated: paper x ink in Subtractive mode, the ink itself in Normal
\* mode, clamp(paper + ink, 0, 1) in Additive mode.
C4_FullInkAsStated ==
  \A ch \in ChannelSet :
    SingleFullChannel(ch) =>
      LET paper == Paper(U, fx)
          ink == InkOf(ch)
      IN  rgbscreen =
            CASE U.blendMode = 0 -> Times3(paper, ink)
              [] U.blendMode = 1 ->
                   Clamp3(<<paper[1] + ink[1], paper[2] + ink[2], paper[3] + ink[3]>>, 0, One)
              [] OTHER -> ink

\* C4: with exactly one channel composited at coverage 1.0 and ink alpha
\* 1.0, the ink is still laid at the strength inkamount = 0.9 - inkNoise *
\* paperNoiseValue: the composite is mix(paper, paper x ink, inkamount) in
\* Subtractive mode, mix(paper, ink, inkamount) in Normal mode and
\* clamp(paper + ink * inkamount, 0, 1) in Additive mode.
C4_FullInkAtInkAmount ==
  \A ch \in ChannelSet :
    SingleFullChannel(ch) =>
      LET paper == Paper(U, fx)
          ink == InkOf(ch)
          amount == F(9, 10) - FMul(U.inkNoise, FMul(F(1, 10), fx.noise))
      IN  rgbscreen =
            CASE U.blendMode = 0 -> Mix3(paper, Times3(paper, ink), amount)
              [] U.blendMode = 1 ->
                   Clamp3(<<paper[1] + FMul(ink[1], amount),
                            paper[2] + FMul(ink[2], amount),
                            paper[3] + FMul(ink[3], amount)>>, 0, One)
              [] OTHER -> Mix3(paper, ink, amount)

\* C4 witness: one channel alone composited at full coverage and full ink
\* alpha, in Normal mode.
C4_Witness ==
  \E ch \in ChannelSet : SingleFullChannel(ch) /\ U.blendMode = 2

\* inkAmount as the claim gives it, for the fragment.
InkAmountAsStated == F(9, 10) - FMul(U.inkNoise, FMul(F(1, 10), fx.noise))

\* The composite after a layer of ink is blended onto rgb with the given
\* alpha, in the blend mode of the uniforms.
Blended(rgb, ink, alpha) ==
  CASE U.blendMode = 0 -> Mix3(rgb, Times3(rgb, ink), alpha)
    [] U.blendMode = 1 ->
         Clamp3(<<rgb[1] + FMul(ink[1], alpha), rgb[2] + FMul(ink[2], alpha),
                  rgb[3] + FMul(ink[3], alpha)>>, 0, One)
    [] OTHER -> Mix3(rgb, ink, alpha)

\* C23: every layer that is composited is blended with the alpha
\* inkColor.a x coverage x inkAmount, where inkAmount = 0.9 - inkNoise x
\* paperNoiseValue is one value of the pixel, the same for all four
\* channels; a channel that is not composited leaves the composite alone.
C23_LayerAlpha ==
  [][pc = "ink" =>
       LET ch == InkOrder[layer]
           alpha == FMul(FMul(U.ink[ch][4], cov[ch]), InkAmountAsStated)
       IN  rgbscreen' = IF Applied(ch) THEN Blended(rgbscreen, InkOf(ch), alpha)
                        ELSE rgbscreen]_vars

\* C23 witness: several layers were composited, one of them at a partial
\* coverage, with the ink noise lowering inkAmount below 0.9.
C23_Witness ==
  /\ pc = "done"
  /\ Len(inked) >= 2
  /\ \E ch \in ChannelSet : Applied(ch) /\ cov[ch] < One
  /\ InkAmountAsStated < F(9, 10)
  /\ rgbscreen # Paper(U, fx)

\* Every channel is hidden and the fragment has been written.
AllHidden == pc = "done" /\ \A ch \in ChannelSet : ~U.show[ch]

\* C15 as stated: with all four channels hidden every output pixel is the
\* paper colour less the paper-noise term, whatever the source image.
C15_PaperOnly == AllHidden => fragColor = Paper(U, fx)

\* C15: with all four channels hidden every output pixel is the paper
\* colour less the paper-noise term mixed with the adjusted source colour
\* by the anti-moire blend: the paper exactly, whatever the source, where
\* that blend is 0.
C15_PaperUnderMoireBlend ==
  AllHidden
    => /\ fragColor = Mix3(Paper(U, fx), texcolor, MoireBlend(U, fx))
       /\ MoireBlend(U, fx) = 0 => fragColor = Paper(U, fx)
       /\ inked = <<>>

C15_Witness ==
  /\ AllHidden
  /\ MoireBlend(U, fx) = 0
  /\ fx.derivatives
  /\ U.paperNoise > 0 /\ fx.noise > 0
  /\ fragColor # U.paperColor
  /\ tex = Solid(Navy)

------------------------------------------------------------------------
\* Properties of the render loop.

\* A draw can happen: a texture is set and the canvas has a size.
Renderable == textureRef.bound /\ dimensions[1] # 0 /\ dimensions[2] # 0

\* The canvas shows the source drawn with the component's current
\* parameters and size.
Reflects ==
  /\ framebuffer.drawn
  /\ framebuffer.p = params
  /\ framebuffer.dims = dimensions

\* C7: the output of a render is a function of the texture, the parameter
\* snapshot and the pixel only: whatever was rendered or bound before,
\* the pixel on the canvas is what main() gives for the uniforms of the
\* snapshot and the texture of that render, so two renders of the same
\* texture and snapshot give the same output.
C7_RenderDeterministic ==
  framebuffer.drawn =>
    Pixel = main(Uniforms(framebuffer.p, framebuffer.dims), framebuffer.data, Probe)

\* C7 witness: the default snapshot is rendered again after the
\* parameters went through other values and a render left other uniform
\* values behind.
C7_Witness ==
  /\ Len(revs) >= 3
  /\ revs[2] # DEFAULTS
  /\ framebuffer.drawn
  /\ framebuffer.p = DEFAULTS
  /\ params = DEFAULTS

\* C8: the uniforms of every draw come from one parameter snapshot: they
\* are the uniforms of one of the snapshots the component went through,
\* never a mix of two of them.
C8_AtomicSnapshot ==
  framebuffer.drawn =>
    \E i \in 1..Len(revs) : glUniforms = Uniforms(revs[i], framebuffer.dims)

\* C8 witness: a draw is made from a closure while the component already
\* holds a later snapshot that differs from it in two parameters.
C8_Witness ==
  /\ framebuffer.drawn
  /\ framebuffer.p # params
  /\ framebuffer.p.fuzz # params.fuzz
  /\ framebuffer.p.blendMode # params.blendMode
  /\ glUniforms = Uniforms(framebuffer.p, framebuffer.dims)

\* C9: with a texture set, every parameter change is followed by a render
\* that reflects the most recent parameter snapshot: whenever a draw can
\* happen, the canvas eventually shows the current parameters.
C9_LatestSnapshotRendered == Renderable ~> Reflects

\* C9 witness: two changes were made, and the canvas shows the last one
\* with no render pending.
C9_Witness ==
  /\ Len(revs) >= 3
  /\ params # DEFAULTS
  /\ Reflects
  /\ ~timeoutId.set
  /\ ~effectsPending

\* C10: each pass of the video loop uploads the frame the element presents
\* at that moment, the latest one decoded, and no render shows a frame
\* older than the one on the canvas.
C10_LatestFrameOnly ==
  [][/\ textureRef'.frame # textureRef.frame => textureRef'.frame = decoded
     /\ framebuffer' # framebuffer =>
          /\ framebuffer'.frame = textureRef'.frame
          /\ framebuffer'.frame >= framebuffer.frame]_vars

\* C10 witness: the canvas shows the second or a later frame of a playing
\* video, the latest one decoded.
C10_Witness ==
  /\ media.kind = "video"
  /\ framebuffer.drawn
  /\ framebuffer.frame >= 2
  /\ framebuffer.frame = decoded

\* The parameters whose value a step changes.
Changed == {k \in DOMAIN params : params'[k] # params[k]}

ControlInputRenders ==
  [][ControlInput =>
       /\ Changed = {"fuzz"}
       /\ textureRef.bound =>
            /\ glUniforms' = Uniforms(params', canvasSize)
            /\ framebuffer'.drawn /\ framebuffer'.p = params']_vars

\* A step of the animation frame an image load requested that draws.
ImageFrameDraws == ImageFrame /\ framebuffer'.drawn /\ framebuffer' # framebuffer

\* C22, the part about the video loop: every draw made by updateVideo or
\* handleLoadedMetadata is made by the closure renderRef.current holds at
\* the call.
C22_VideoLoopReadsRenderRef ==
  [][((updateVideo \/ handleLoadedMetadata) /\ framebuffer' # framebuffer)
       => framebuffer'.p = renderRef.p /\ framebuffer'.dims = renderRef.dims]_vars

\* C22: a render made from an animation frame, the video loop or the
\* debounce timeout reads the parameters through renderRef.current at the
\* call, never a snapshot captured when the callback was started: once the
\* effects of the last change have run, every draw is made with the
\* current parameters.
C22_CallbacksReadCurrentSnapshot ==
  [][(~effectsPending /\ framebuffer' # framebuffer /\ framebuffer'.drawn)
       => framebuffer'.p = renderRef.p /\ framebuffer'.p = params]_vars

\* C22 failure: the animation frame of the second image's load has drawn
\* it with the parameters of the moment it was selected, after the
\* parameters were changed and renderRef.current was updated.
C22_StaleImageFrame ==
  /\ media.kind = "image" /\ media.phase = "shown" /\ media.data = SwappedImage
  /\ framebuffer.drawn /\ framebuffer.data = SwappedImage
  /\ framebuffer.p = media.render.p
  /\ framebuffer.p # params
  /\ renderRef.p = params
  /\ glUniforms = Uniforms(media.render.p, DisplaySize)

------------------------------------------------------------------------
\* Properties of the draw call.

\* The canvas holds a draw made while the file was selected and its load
\* had got past the creation of the texture, at the fitted size, with every
\* uniform bound from the snapshot of the draw.
C12_DrawNeedsTextureAndSize ==
  framebuffer.drawn
    => /\ media.phase \notin {"idle", "loading"}
       /\ textureRef.bound
       /\ framebuffer.dims = DisplaySize
       /\ glUniforms = Uniforms(framebuffer.p, framebuffer.dims)

\* C12: a draw call is issued only with the canvas sized to the source,
\* the texture uploaded and every parameter bound as a uniform: never with
\* no media, never while the media loads, never with a texture that holds
\* no frame of the source.
C12_DrawOnlyWhenReady ==
  framebuffer.drawn
    => /\ media.phase \notin {"idle", "loading"}
       /\ framebuffer.dims = DisplaySize
       /\ glUniforms = Uniforms(framebuffer.p, framebuffer.dims)
       /\ media.kind = "video" => framebuffer.frame > 0

\* A draw was issued for a video texture into which no frame had been
\* uploaded.
C12_DrawWithoutUpload ==
  /\ framebuffer.drawn
  /\ media.kind = "video"
  /\ framebuffer.frame = 0
  /\ decoded = 0

------------------------------------------------------------------------
\* Properties of the media lifecycle.

\* The textures that hold pixels of a file other than the selected one.
StaleTextures == {t \in glTextures : t.file \notin {"none", imageFile.name}}

\* The pixels file f can put on a texture.
PixelsOf(f) == {Pixels(f, k) : k \in 0..(MaxFrames + 1)}

\* A step that uploads pixels of file name n into a texture.
Uploads(n) == \E t \in glTextures' : t.file = n /\ t \notin glTextures

\* A step that draws.
DrawStep == framebuffer' # framebuffer /\ framebuffer'.drawn

\* The frame loop of every video whose effect was cleaned up has stopped,
\* and its metadata handler is gone.
VideoLoopCancelled ==
  \A i \in 1..Len(loads) :
    loads[i].file.kind = "video" /\ ~loads[i].live => loads[i].phase \in {"stopped", "failed"}

\* C11, the part about a previous video: once a video has been swapped
\* out, no step uploads or draws a frame of it.
C11_NoStaleVideoFrame ==
  [][host' = "web"
       => \A f \in MediaFiles :
            f.kind = "video" /\ f.ok /\ f # imageFile'
              => /\ ~Uploads(f.name)
                 /\ DrawStep => framebuffer'.data \notin PixelsOf(f)]_vars

\* C11: swapping the source media stops the frame loop of a video in
\* flight and releases the previous texture before the new media's texture
\* is bound (at most one texture is alive), and after the swap no step
\* uploads or draws pixels of a file other than the selected one.
C11_SwapCancelsPrevious ==
  [][host' = "web"
       => /\ VideoLoopCancelled'
          /\ Cardinality(glTextures') <= 1
          /\ \A f \in MediaFiles :
               f # imageFile'
                 => /\ ~Uploads(f.name)
                    /\ DrawStep /\ f.ok => framebuffer'.data \notin PixelsOf(f)]_vars

\* A texture holds a file that was swapped out before its load completed.
C11_StaleUpload ==
  /\ host = "web"
  /\ swaps = 2
  /\ StaleTextures # {}

\* The host has run its initialisation.
Initialised == IF host = "web" THEN swaps > 0 ELSE listening \/ uiMessage # "none"

\* C13, the part about rendering: after a failed initialisation nothing is
\* ever drawn.
C13_NoDrawAfterFailedInit == fault \in {"context", "shader"} => ~framebuffer.drawn

\* C13: when WebGL is missing or a shader does not compile, the host is
\* in a terminal state that the UI shows at once, and no media load and no
\* render proceeds from it.
C13_FailedInitIsTerminal ==
  fault \in {"context", "shader"} /\ Initialised
    => /\ uiMessage = "WebGL not supported"
       /\ loads = <<>>
       /\ glTextures = {}
       /\ ~framebuffer.drawn

\* After an initialisation that failed at the shaders, a file was loaded
\* and uploaded into a texture, and the UI shows nothing.
C13_LoadAfterFailedInit ==
  /\ fault = "shader"
  /\ host = "web"
  /\ glTextures # {}
  /\ uiMessage = "none"

\* Load i fails in this step.
Fails(i) ==
  /\ i <= Len(loads')
  /\ loads[i].phase = "decoding"
  /\ loads'[i].phase = "failed"

\* C14, the part about the state: a load that fails leaves the texture,
\* the canvas and the render loop as they were, and the host still takes a
\* new file.
C14_LoadFailureLeavesState ==
  [][\A i \in 1..Len(loads) :
       Fails(i) => UNCHANGED <<hostVars, glTextures, textureId, canvasSize, glRef,
                               programRef, listening, imageFile, swaps>>]_vars

\* C14: a load that fails is reported as a load failure, and leaves the
\* texture, the canvas and the render loop as they were.
C14_LoadFailureReported ==
  [][\A i \in 1..Len(loads) :
       Fails(i) => /\ uiMessage' = "Error loading image"
                   /\ UNCHANGED <<hostVars, glTextures, textureId, canvasSize>>]_vars

\* The file that does not decode has failed to load and the UI shows
\* nothing.
C14_SilentFailure ==
  /\ host = "web"
  /\ \E i \in 1..Len(loads) : loads[i].phase = "failed" /\ ~loads[i].file.ok
  /\ ~imageFile.ok
  /\ uiMessage = "none"

\* The longer edge of a size.
LongerEdge(size) == Max(size[1], size[2])

\* C17: no texture whose longer edge exceeds the cap is ever uploaded.
C17_UploadWithinCap == \A t \in glTextures : LongerEdge(t.size) <= maxDimension

\* A texture holds an image at a size above the cap.
C17_OversizedTexture ==
  \E t \in glTextures : t.file = "a.png" /\ LongerEdge(t.size) > maxDimension

\* A step that exports a raster: the animation frame of handleDownload, or
\* applyHalftone.
Exports == DownloadFrame \/ applyHalftone

\* The export has the size of the canvas, whatever the canvas holds.
ExportHasCanvasSize == [][Exports => exported'.size = canvasSize']_vars

\* The plugin UI exports the draw applyHalftone has just made.
PluginExportsItsRender ==
  [][applyHalftone =>
       /\ exported'.canvas.drawn
       /\ Uniforms(exported'.canvas.p, exported'.canvas.dims) = glUniforms'
       /\ exported'.canvas.p = params]_vars

\* C19: once a render has completed, every exported raster has the pixel
\* dimensions of the canvas, is opaque (its pixels were written by a draw,
\* whose alpha is 1.0), and holds the output of the most recently completed
\* render: the draw made with the uniforms the program holds.
C19_ExportIsLastRender ==
  [][(Exports /\ glUniforms' # ZeroUniforms) =>
       /\ exported'.size = canvasSize'
       /\ exported'.canvas.drawn
       /\ Uniforms(exported'.canvas.p, exported'.canvas.dims) = glUniforms']_vars

\* C19 failure: the first file was rendered, the second clip's metadata
\* resized the canvas, which cleared it, and the export was made of the
\* cleared canvas before the clip's first frame was drawn.
C19_BlankExport ==
  /\ host = "web"
  /\ swaps = 2
  /\ imageFile.name = "w.mp4"
  /\ glUniforms # ZeroUniforms
  /\ ~framebuffer.drawn
  /\ exported.made
  /\ exported.size = fitCanvasToContainer(imageFile.size)
  /\ ~exported.canvas.drawn

\* Load i was started for a file that is no longer the selected one, and
\* the step completes it or moves it on.
LateCompletion(i) ==
  /\ i <= Len(loads')
  /\ loads[i].file.kind = "image"
  /\ loads[i].file # imageFile
  /\ loads'[i].phase # loads[i].phase

\* C20 as stated: the late completion of the load of a file that has been
\* swapped away never deletes or replaces the texture of the current
\* media, never changes the canvas size, and never schedules or makes a
\* render of the stale image.
C20_LateCompletionInert ==
  [][\A i \in 1..Len(loads) :
       LateCompletion(i) =>
         /\ textureId' = textureId /\ glTextures' = glTextures
         /\ canvasSize' = canvasSize
         /\ loads'[i].phase # "raf"
         /\ framebuffer' = framebuffer]_vars

\* C20 failure: b.png is selected and its load is done, every load has
\* ended, and the canvas has the size of a.png and shows a.png, whose
\* texture took the place of b.png's.
C20_StaleImageShown ==
  /\ host = "web"
  /\ imageFile.name = "b.png"
  /\ \E i \in 1..Len(loads) : loads[i].file = imageFile /\ loads[i].phase = "done"
  /\ \A i \in 1..Len(loads) : loads[i].phase \in {"done", "failed"}
  /\ StaleTextures # {}
  /\ canvasSize = fitCanvasToContainer(ScaledSize(<<1200, 800>>))
  /\ framebuffer.drawn
  /\ framebuffer.data = Pixels([name |-> "a.png"], 0)

\* Every load the plugin UI started has ended, and the one of the most
\* recent image-data message ended with its image uploaded.
PluginLoadsSettled ==
  /\ host = "figma"
  /\ loads # <<>>
  /\ \A i \in 1..Len(loads) : loads[i].phase \in {"done", "failed"}
  /\ loads[Len(loads)].file = imageFile
  /\ loads[Len(loads)].phase = "done"

\* C26 as stated: in the plugin UI, once the decodes of all image-data
\* messages have completed, in whatever order, the texture holds and the
\* canvas shows the image of the most recent message.
C26_LatestMessageHeld ==
  PluginLoadsSettled =>
    /\ textureRef.data = Pixels(imageFile, 0)
    /\ canvasSize = imageFile.size
    /\ framebuffer.drawn => framebuffer.data = Pixels(imageFile, 0)

\* C26 failure: the message for b.png came last and its image was
\* uploaded, every decode has completed, and the texture and the canvas
\* hold a.png, whose decode completed after b.png's.
C26_OlderImageHeld ==
  /\ PluginLoadsSettled
  /\ imageFile.name = "b.png"
  /\ textureRef.bound
  /\ textureRef.data = Pixels([name |-> "a.png"], 0)
  /\ framebuffer.drawn
  /\ framebuffer.data = Pixels([name |-> "a.png"], 0)
  /\ canvasSize # imageFile.size

\* C21, the part about the draw call: every step that draws leaves a
\* live texture in the texture reference, the one the draw has bound.
C21_DrawBindsLiveTexture == [][DrawStep => ~DeletedTexture']_vars

------------------------------------------------------------------------
\* Properties of the plugin's main thread.

\* The apply-halftone messages handled so far.
Handled == 1..Len(outcomes)

\* C25 as stated: an apply-halftone message replaces the fill of the node
\* whose image the UI has rendered, also when the selection has changed
\* since that image was sent.
C25_ReplacesRenderedNode ==
  \A i \in Handled :
    outcomes[i].kind = "replaced" => outcomes[i].target = outcomes[i].of

\* C25 failure: the UI rendered the image of A, and the fill of B, selected
\* since, was replaced with it; A keeps its image.
C25_OtherNodeReplaced ==
  \E i \in Handled :
    /\ outcomes[i].kind = "replaced"
    /\ outcomes[i].of = "A"
    /\ outcomes[i].target = "B"
    /\ nodes["B"] = "halftone"
    /\ nodes["A"] = "imgA"

\* C27 as stated: every apply-halftone message handled ends in a replaced
\* fill, a new rectangle or an error, and in a notification.
C27_ApplyHasOutcome ==
  \A i \in Handled :
    /\ outcomes[i].kind \in {"replaced", "created", "error"}
    /\ outcomes[i].notify # "none"

\* C27 failure: an apply-halftone message was handled with the solid
\* rectangle S as selectedNodeId: no fill replaced, no rectangle, no
\* notification.
C27_SilentApply ==
  \E i \in Handled :
    /\ outcomes[i].kind = "none"
    /\ outcomes[i].notify = "none"
    /\ outcomes[i].of \in {"A", "B"}
    /\ nodes = Page

\* The messages posted by sendSelectedImage call k.
Replies(k) == {i \in 1..Len(toUi) : toUi[i].call = k}

------------------------------------------------------------------------
\* Properties of the recording.

\* mediaRecorderRef.current is a recorder that is recording.
RecorderActive ==
  mediaRecorderRef # 0 /\ recorders[mediaRecorderRef].state = "recording"

\* C29 as stated: isRecording is true exactly when a MediaRecorder is
\* referenced and active, and while it is false no recorder is referenced;
\* so after a stop by the user or by a change of media isRecording is false
\* and mediaRecorderRef is null.
C29_RecordingIffActive ==
  /\ isRecording <=> RecorderActive
  /\ ~isRecording => mediaRecorderRef = 0

\* What stopRecording gives: afterwards isRecording is false, no recorder
\* is referenced, and every recorder is inactive.
C29_StopClears ==
  [][stopRecording =>
       /\ ~isRecording' /\ mediaRecorderRef' = 0
       /\ \A i \in 1..Len(recorders') : recorders'[i].state = "inactive"]_vars

\* C29 failure: the media was changed during a recording; the recorder has
\* stopped and saved its file, it is still referenced, and isRecording is
\* still true.
C29_FlagOutlivesRecorder ==
  /\ isRecording
  /\ swaps > 0
  /\ mediaRecorderRef # 0
  /\ recorders[mediaRecorderRef] = [state |-> "inactive", saved |-> TRUE]

------------------------------------------------------------------------
\* Properties of the zoom.

\* C30: the zoom factor is never below MIN_ZOOM and never above MAX_ZOOM of
\* its host (0.25 and 4.0 in the web component, 0.1 and 5 in the plugin UI),
\* whatever sequence of zoom-in, zoom-out, wheel, pinch and fit came before.
C30_ZoomInRange == MIN_ZOOM(host) <= zoom /\ zoom <= MAX_ZOOM(host)

\* C30 witness: the plugin UI has fitted the poster, which at its scale
\* would be below MIN_ZOOM, and the zoom is MIN_ZOOM.
C30_Witness ==
  /\ host = "figma"
  /\ textureRef.bound
  /\ canvasSize = <<12000, 9000>>
  /\ fitToViewUnclamped(canvasSize) < MIN_ZOOM("figma")
  /\ zoom = MIN_ZOOM("figma")

====
